---- MODULE Spec2Model ----
(***************************************************************************)
(* A model of the question-answering pipeline of FloChat:                  *)
(* the /api/chat handler of backend/app/api/chat.py with the session       *)
(* ledger (table chat_sessions), the knowledge aggregation over the table  *)
(* knowledge_bases, the pre-flight token check, the model call and the     *)
(* classification of the raw model output.                                 *)
(*                                                                         *)
(* Text that the code processes (lower, in, replace, strip) is a sequence  *)
(* of one-character strings.  Python None / SQL NULL is the string None.   *)
(* Monetary cost is counted in whole units (an integer).                   *)
(***************************************************************************)
EXTENDS Integers, Sequences, FiniteSets, TLC

\* ------------------------------------------------------------------ bounds
\* number of /api/chat requests of one behaviour (they may all overlap)
MaxReq == 2
\* a raw model output is made of at most this many segments
MaxSegs == 3
\* the database clock runs up to this time
MaxNow == 3

None == "None"

\* ------------------------------------------------------------------- text
UpperCase == <<"A","B","C","D","E","F","G","H","I","J","K","L","M",
               "N","O","P","Q","R","S","T","U","V","W","X","Y","Z">>
LowerCase == <<"a","b","c","d","e","f","g","h","i","j","k","l","m",
               "n","o","p","q","r","s","t","u","v","w","x","y","z">>

\* str.lower() on one character
LowerChar(c) ==
    IF \E i \in 1..Len(UpperCase) : UpperCase[i] = c
    THEN LowerCase[CHOOSE i \in 1..Len(UpperCase) : UpperCase[i] = c]
    ELSE c

\* str.lower()
Lower(s) == [i \in 1..Len(s) |-> LowerChar(s[i])]

\* s[i:] starts with t
StartsWith(s, t) == Len(s) >= Len(t) /\ SubSeq(s, 1, Len(t)) = t

\* Python's  t in s : a left-to-right search for the substring
RECURSIVE Contains(_, _)
Contains(s, t) ==
    IF Len(s) < Len(t) THEN FALSE
    ELSE IF StartsWith(s, t) THEN TRUE
    ELSE Contains(Tail(s), t)

\* s.replace(old, ""): one pass, left to right, over non-overlapping matches
RECURSIVE Replace(_, _)
Replace(s, old) ==
    IF Len(s) < Len(old) THEN s
    ELSE IF StartsWith(s, old) THEN Replace(SubSeq(s, Len(old) + 1, Len(s)), old)
    ELSE <<Head(s)>> \o Replace(Tail(s), old)

Whitespace == {" ", "\t", "\n", "\r"}

RECURSIVE LStrip(_)
LStrip(s) == IF s # <<>> /\ Head(s) \in Whitespace THEN LStrip(Tail(s)) ELSE s

RECURSIVE RStrip(_)
RStrip(s) ==
    IF s # <<>> /\ s[Len(s)] \in Whitespace THEN RStrip(SubSeq(s, 1, Len(s) - 1)) ELSE s

\* str.strip()
Strip(s) == RStrip(LStrip(s))

\* ------------------------------------------------- the response classifier
HANDOFF_TOKEN == <<"[","h","a","n","d","o","f","f","_","r","e","q","u","i","r","e","d","]">>
LEAD_TOKEN == <<"[","l","e","a","d","_","r","e","q","u","i","r","e","d","]">>
HANDOFF_APOLOGY == <<"I","'","m"," ","s","o","r","r","y",","," ","I"," ","d","o","n","'","t"," ","h","a","v","e"," ","t","h","e"," ","e","x","a","c","t"," ","i","n","f","o","r","m","a","t","i","o","n"," ","f","o","r"," ","t","h","a","t"," ","r","i","g","h","t"," ","n","o","w","."," ","I"," ","w","i","l","l"," ","e","s","c","a","l","a","t","e"," ","t","h","i","s"," ","t","o"," ","a"," ","h","u","m","a","n"," ","r","e","p","r","e","s","e","n","t","a","t","i","v","e",".">>

Classify_LeadFirst(bot_reply) ==
    IF Contains(Lower(bot_reply), LEAD_TOKEN)
    THEN [is_handoff |-> FALSE, is_lead |-> TRUE,
          frontend_reply |-> Strip(Replace(Lower(bot_reply), LEAD_TOKEN))]
    ELSE IF Contains(Lower(bot_reply), HANDOFF_TOKEN)
    THEN [is_handoff |-> TRUE, is_lead |-> FALSE, frontend_reply |-> HANDOFF_APOLOGY]
    ELSE [is_handoff |-> FALSE, is_lead |-> FALSE, frontend_reply |-> bot_reply]

\* Lines 177-190: is_handoff, is_lead and frontend_reply of a raw model output
Classify(bot_reply) ==
    IF Contains(Lower(bot_reply), HANDOFF_TOKEN)
    THEN [is_handoff |-> TRUE, is_lead |-> FALSE, frontend_reply |-> HANDOFF_APOLOGY]
    ELSE IF Contains(Lower(bot_reply), LEAD_TOKEN)
    THEN [is_handoff |-> FALSE, is_lead |-> TRUE,
          frontend_reply |-> Strip(Replace(Lower(bot_reply), LEAD_TOKEN))]
    ELSE [is_handoff |-> FALSE, is_lead |-> FALSE, frontend_reply |-> bot_reply]


\* ------------------------------------------------------------ the tenants
\* table clients: business_name, api_key, model_name, system_instruction
ClientTable ==
    [c \in {"acme", "bolt", "cero", "dino", "echo"} |->
        CASE c = "acme" -> [business_name |-> "Acme", api_key |-> "key-acme",
                            model_name |-> "small-model", system_instruction |-> None]
          [] c = "bolt" -> [business_name |-> "Bolt", api_key |-> "key-bolt",
                            model_name |-> "custom-model", system_instruction |-> "Be brief"]
          [] c = "cero" -> [business_name |-> "Cero", api_key |-> "key-cero",
                            model_name |-> "unmapped-model", system_instruction |-> None]
          [] c = "dino" -> [business_name |-> "Dino", api_key |-> None,
                            model_name |-> "small-model", system_instruction |-> None]
          [] c = "echo" -> [business_name |-> "Echo", api_key |-> "key-echo",
                            model_name |-> None, system_instruction |-> None]]

\* litellm.get_max_tokens: a number for a mapped model, None for a model mapped
\* without a limit, an exception for an unmapped model
SMALL_MODEL_MAX == 4096
DEFAULT_MAX_TOKENS == 8000
SLIDING_WINDOW == 6
GetMaxTokensRaises(model_name) == model_name = "unmapped-model"
GetMaxTokens(model_name) ==
    IF model_name = "small-model" THEN SMALL_MODEL_MAX ELSE DEFAULT_MAX_TOKENS

\* a local that no statement has assigned yet
Unset == 0 - 1
\* SQL NULL in a timestamp column, in a text column
NoTime == 0 - 1
NullContent == <<None>>

\* ----------------------------------------------------------------- state
VARIABLES
    chat_sessions,      \* table chat_sessions: session_id -> row
    knowledge_bases,    \* table knowledge_bases: the rows, in table order
    now,                \* the database clock, NOW()
    pc,                 \* where each /api/chat request stands
    req,                \* the JSON body of each request
    loc,                \* the locals of each request
    resp,               \* the response each request returned
    completion_calls,   \* calls of litellm.completion made by each request
    ledger_writes,      \* upserts of chat_sessions committed by each request
    handoff_clusters,   \* table handoff_clusters: id -> row
    handoff_users,      \* table handoff_users: the rows, in insertion order
    outbox,             \* the messages handed to the SMTP server
    clients,            \* table clients: the knowledge columns of each tenant
    sheet,              \* the spreadsheet sheet-1 at Google: modifiedTime, version
    escalated_queries_awaiting_reply,  \* src/app.py: message id -> escalated query
    learned_qna_data    \* src/app.py: the learned questions and answers, as loaded

vars == <<chat_sessions, knowledge_bases, now, pc, req, loc, resp,
          completion_calls, ledger_writes, handoff_clusters, handoff_users,
          outbox, clients, sheet, escalated_queries_awaiting_reply,
          learned_qna_data>>

\* what the blueprint's /api/chat never writes
handoff_tables == <<handoff_clusters, handoff_users, outbox, clients>>

\* the globals of the legacy messenger process, src/app.py
legacy_globals == <<escalated_queries_awaiting_reply, learned_qna_data>>

Reqs == 1..MaxReq

NoData == [empty |-> TRUE]
\* a body that parses to a non-empty JSON value that is no object
ListBody == [empty |-> FALSE]
NoResp == [status |-> 0]

\* the replies of /api/chat
FixedReply(text) == [fmt |-> "fixed", text |-> text]
TextReply(chars) == [fmt |-> "text", chars |-> chars]
WarningReply(model_name, tokens, max_tokens) ==
    [fmt |-> "context_limit", model_name |-> model_name, tokens |-> tokens,
     max_tokens |-> max_tokens]
ProviderErrorReply(e) == [fmt |-> "provider_error", error |-> e]

NO_DATA_REPLY == FixedReply("Error: No data sent")
DB_FAILED_REPLY == FixedReply("Database connection failed")
INVALID_CLIENT_REPLY == FixedReply("Invalid Client ID")
NOT_CONFIGURED_REPLY ==
    FixedReply("AI Provider not configured. Please add your API key in the dashboard.")
NOT_READY_REPLY == FixedReply("I'm not ready yet. Please configure my knowledge base.")
EMPTY_KB_REPLY == FixedReply("I'm not ready yet. My knowledge bases are currently empty.")

Response(status, reply, handoff, lead) ==
    [status |-> status, reply |-> reply, handoff |-> handoff, lead |-> lead]

\* an exception that leaves the handler: the framework answers with its
\* error page, a body without "reply"
NO_JSON_BODY == [fmt |-> "error_page"]
UnhandledFault == Response(500, NO_JSON_BODY, FALSE, FALSE)

InitLoc ==
    [model_name |-> None, grid_mode |-> FALSE, knowledge |-> <<>>,
     kbs |-> <<>>, drive_service |-> FALSE, combined_data |-> <<>>,
     chat_history |-> <<>>, llm_messages |-> <<>>, tokens |-> Unset, max_tokens |-> Unset,
     bot_reply |-> <<>>, msg_tokens |-> 0, msg_cost |-> 0,
     is_handoff |-> FALSE, is_lead |-> FALSE, frontend_reply |-> <<>>,
     provider_error |-> None, resolved_tickets |-> <<>>, google_time |-> NoTime,
     fetch_calls |-> 0, sync_stamp |-> NoTime, new_content |-> NullContent,
     found_stale |-> {}, cache_writes |-> <<>>]

\* return jsonify(...), status
Finish(r, response) ==
    /\ pc' = [pc EXCEPT ![r] = "done"]
    /\ resp' = [resp EXCEPT ![r] = response]

Goto(r, label) ==
    /\ pc' = [pc EXCEPT ![r] = label]
    /\ UNCHANGED resp

\* ------------------------------------------------------- POST /api/chat
\* an inline grid without rows, the JSON value []
EMPTY_GRID == "grid-0"

\* Line 48, if temp_context: the truth value of the inline grid
Truthy(temp_context) == temp_context \notin {None, EMPTY_GRID}

\* SELECT ... FROM knowledge_bases WHERE client_id = %s
BindingsOf(client_id) == SelectSeq(knowledge_bases, LAMBDA b : b.client_id = client_id)

NoBindings_Never(kbs) == FALSE

\* Line 55: if not kbs
NoBindings(kbs) == kbs = <<>>

\* Lines 18-59: the body, the connection, the tenant, its configuration, and
\* the choice between the inline grid and the tenant's bindings.
\* conn_ok: get_db_connection() returned a connection;
\* drive_ok: get_user_services() returned a drive service.
ChatStart(r, data, conn_ok, drive_ok) ==
    /\ pc[r] = "idle"
    /\ UNCHANGED handoff_tables
    /\ req' = [req EXCEPT ![r] = data]
    /\ UNCHANGED <<chat_sessions, knowledge_bases, now, sheet, legacy_globals, completion_calls, ledger_writes>>
    /\ IF data = NoData
       THEN Finish(r, Response(400, NO_DATA_REPLY, FALSE, FALSE)) /\ UNCHANGED loc
       ELSE IF data = ListBody
       THEN Finish(r, UnhandledFault) /\ UNCHANGED loc
       ELSE IF ~conn_ok
       THEN Finish(r, Response(500, DB_FAILED_REPLY, FALSE, FALSE)) /\ UNCHANGED loc
       ELSE IF data.client_id \notin DOMAIN ClientTable
       THEN Finish(r, Response(200, INVALID_CLIENT_REPLY, FALSE, FALSE)) /\ UNCHANGED loc
       ELSE LET row == ClientTable[data.client_id]
                kbs == BindingsOf(data.client_id)
            IN  IF row.api_key = None \/ row.model_name = None
                THEN Finish(r, Response(200, NOT_CONFIGURED_REPLY, FALSE, FALSE))
                     /\ UNCHANGED loc
                ELSE IF Truthy(data.temp_context)
                THEN /\ Goto(r, "history")
                     /\ loc' = [loc EXCEPT ![r].model_name = row.model_name,
                                           ![r].grid_mode = TRUE,
                                           ![r].knowledge = <<data.temp_context>>]
                ELSE IF NoBindings(kbs)
                THEN Finish(r, Response(200, NOT_READY_REPLY, FALSE, FALSE))
                     /\ UNCHANGED loc
                ELSE /\ Goto(r, "kb")
                     /\ loc' = [loc EXCEPT ![r].model_name = row.model_name,
                                           ![r].kbs = kbs,
                                           ![r].drive_service = drive_ok]

\* sync_knowledge_base: the UPDATE of every row of the tenant with this file_id
SyncedRows(rows, client_id, file_id, new_content, stamp) ==
    [i \in 1..Len(rows) |->
        IF rows[i].client_id = client_id /\ rows[i].file_id = file_id
        THEN [rows[i] EXCEPT !.cached_content = new_content, !.last_synced_at = stamp]
        ELSE rows[i]]

\* Lines 85-89: the records of a binding's content added to the master list
Extended(combined_data, current_content) ==
    IF current_content # NullContent /\ current_content # <<>>
    THEN combined_data \o current_content
    ELSE combined_data

NeedSync_WheneverChecked(b, checked, meta) == checked

\* Lines 62-78: need_sync of a binding b as read at line 52
NeedSync(b, checked, meta) ==
    IF ~checked THEN FALSE
    ELSE IF ~meta.ok THEN b.cached_content = NullContent
    ELSE b.last_synced_at = NoTime \/ meta.modifiedTime > b.last_synced_at

\* a binding of a tenant: its spreadsheet or document and its range
BindingKey(b) == <<b.file_id, b.sheet_range>>

\* Lines 61-89: one round of the loop over the bindings read at line 52, up
\* to the return of the fetch of sync_knowledge_base when the fetch returned
\* content, to the end of the round otherwise.
\* meta: the answer of drive files().get (ok, modifiedTime);
\* fetched: the answer of fetch_and_process_sheet (NullContent: it failed).
ChatKbStep(r, meta, fetched) ==
    /\ pc[r] = "kb"
    /\ UNCHANGED handoff_tables
    /\ loc[r].kbs # <<>>
    /\ LET b == Head(loc[r].kbs)
           checked == b.file_type = "sheet" /\ loc[r].drive_service /\ b.file_id # None
           google_time == IF checked /\ meta.ok THEN meta.modifiedTime ELSE NoTime
           need_sync == NeedSync(b, checked, meta)
           writing == need_sync /\ fetched # NullContent
           found_stale == IF need_sync THEN loc[r].found_stale \cup {BindingKey(b)}
                          ELSE loc[r].found_stale
       IN  IF writing
           THEN /\ loc' = [loc EXCEPT ![r].google_time = google_time,
                                      ![r].found_stale = found_stale,
                                      ![r].fetch_calls = @ + 1,
                                      ![r].new_content = fetched,
                                      ![r].sync_stamp = NoTime]
                /\ Goto(r, "kb_write")
           ELSE /\ loc' = [loc EXCEPT
                             ![r].google_time = google_time,
                             ![r].found_stale = found_stale,
                             ![r].fetch_calls = IF need_sync THEN @ + 1 ELSE @,
                             ![r].kbs = Tail(loc[r].kbs),
                             ![r].combined_data = Extended(@, b.cached_content)]
                /\ Goto(r, "kb")
    /\ UNCHANGED <<chat_sessions, knowledge_bases, now, sheet, legacy_globals, req, completion_calls, ledger_writes>>

\* sync_knowledge_base, lines 105-107: the connection and the start of the
\* transaction of the UPDATE, whose time NOW() returns
ChatKbBegin(r) ==
    /\ pc[r] = "kb_write"
    /\ loc[r].sync_stamp = NoTime
    /\ loc' = [loc EXCEPT ![r].sync_stamp = now]
    /\ UNCHANGED <<chat_sessions, knowledge_bases, now, sheet, legacy_globals, pc, req, resp,
                   completion_calls, ledger_writes, handoff_tables>>

\* the bindings the UPDATE of sync_knowledge_base matches
MatchedKeys(rows, client_id, file_id) ==
    LET matched == SelectSeq(rows, LAMBDA b : b.client_id = client_id /\ b.file_id = file_id)
    IN  [i \in 1..Len(matched) |-> BindingKey(matched[i])]

\* sync_knowledge_base, lines 107-111, and lines 82-89 of the handler: the
\* UPDATE, the commit, and the rest of the round
ChatKbWrite(r) ==
    /\ pc[r] = "kb_write"
    /\ loc[r].sync_stamp # NoTime
    /\ knowledge_bases' =
          SyncedRows(knowledge_bases, req[r].client_id, Head(loc[r].kbs).file_id,
                     loc[r].new_content, loc[r].sync_stamp)
    /\ loc' = [loc EXCEPT ![r].kbs = Tail(loc[r].kbs),
                          ![r].cache_writes =
                              @ \o MatchedKeys(knowledge_bases, req[r].client_id,
                                               Head(loc[r].kbs).file_id),
                          ![r].combined_data = Extended(@, loc[r].new_content)]
    /\ Goto(r, "kb")
    /\ UNCHANGED <<chat_sessions, now, sheet, legacy_globals, req, completion_calls, ledger_writes, handoff_tables>>

\* sync_knowledge_base, lines 105-108: get_db_connection returned None or the
\* UPDATE raised; nothing in the handler catches it
ChatSyncFail(r) ==
    /\ pc[r] = "kb_write"
    /\ Finish(r, UnhandledFault)
    /\ UNCHANGED <<chat_sessions, knowledge_bases, now, sheet, legacy_globals, req, loc, completion_calls,
                   ledger_writes, handoff_tables>>

\* Lines 91-94: after the loop, the check of the combined data
ChatKbDone(r) ==
    /\ pc[r] = "kb"
    /\ UNCHANGED handoff_tables
    /\ loc[r].kbs = <<>>
    /\ IF loc[r].combined_data = <<>>
       THEN Finish(r, Response(200, EMPTY_KB_REPLY, FALSE, FALSE)) /\ UNCHANGED loc
       ELSE /\ Goto(r, "history")
            /\ loc' = [loc EXCEPT ![r].knowledge = loc[r].combined_data]
    /\ UNCHANGED <<chat_sessions, knowledge_bases, now, sheet, legacy_globals, req, completion_calls,
                   ledger_writes>>

ResolvedTickets_AnyTenant(client_id) ==
    LET rows == SelectSeq(handoff_clusters, LAMBDA c : c.status = "resolved")
    IN  [i \in 1..Len(rows) |-> [q |-> rows[i].combined_question, a |-> rows[i].answer]]

\* Lines 117-118: SELECT combined_question, answer FROM handoff_clusters
\* WHERE client_id = %s AND status = 'resolved'
ResolvedTickets(client_id) ==
    LET rows == SelectSeq(handoff_clusters,
                          LAMBDA c : c.client_id = client_id /\ c.status = "resolved")
    IN  [i \in 1..Len(rows) |-> [q |-> rows[i].combined_question, a |-> rows[i].answer]]

HasSession_Always(session_id) == TRUE

\* Lines 105 and 192, if session_id: the request names a session
HasSession(session_id) == session_id # None

\* Lines 105-118: the transcript of the session, read by session id, and the
\* resolved handoffs of the tenant
ChatReadHistory(r) ==
    /\ pc[r] = "history"
    /\ UNCHANGED handoff_tables
    /\ LET sid == req[r].session_id
           chat_history ==
               IF HasSession(sid) /\ sid \in DOMAIN chat_sessions
               THEN chat_sessions[sid].messages
               ELSE <<>>
       IN  loc' = [loc EXCEPT ![r].chat_history = chat_history,
                              ![r].resolved_tickets = ResolvedTickets(req[r].client_id)]
    /\ Goto(r, "preflight")
    /\ UNCHANGED <<chat_sessions, knowledge_bases, now, sheet, legacy_globals, req, completion_calls, ledger_writes>>

\* Lines 105-118 inside the try of line 33, which has a finally and no
\* except: the SELECT of the transcript or of the resolved handoffs raised
ChatReadHistoryFail(r) ==
    /\ pc[r] = "history"
    /\ Finish(r, UnhandledFault)
    /\ UNCHANGED <<chat_sessions, knowledge_bases, now, sheet, legacy_globals, req, loc, completion_calls,
                   ledger_writes, handoff_tables>>

RecentHistory_Whole(chat_history) == chat_history

\* chat_history[-6:]
RecentHistory(chat_history) ==
    IF Len(chat_history) <= SLIDING_WINDOW THEN chat_history
    ELSE SubSeq(chat_history, Len(chat_history) - SLIDING_WINDOW + 1, Len(chat_history))

\* Lines 120-127: the parts of the system prompt: the persona, the business
\* name, the knowledge, the previously answered questions, the instruction
SystemPrompt(client_id, knowledge_base, resolved_tickets, grid_mode) ==
    [role |-> IF ClientTable[client_id].system_instruction = None
              THEN "Helpful Assistant" ELSE ClientTable[client_id].system_instruction,
     business_name |-> ClientTable[client_id].business_name,
     data |-> knowledge_base,
     learned_context |-> resolved_tickets,
     system_note |-> IF grid_mode THEN "grid" ELSE "strict"]

\* Lines 129-135: the message list of the model call
LlmMessages(full_system_prompt, chat_history, user_message) ==
    <<[role |-> "system", content |-> full_system_prompt]>>
    \o [i \in 1..Len(RecentHistory(chat_history)) |->
          [role |-> IF RecentHistory(chat_history)[i].role = "model" THEN "assistant"
                    ELSE RecentHistory(chat_history)[i].role,
           content |-> RecentHistory(chat_history)[i].content]]
    \o <<[role |-> "user", content |-> user_message]>>

ChatPreflight_NoReturn(r, counted, estimate) ==
    /\ pc[r] = "preflight"
    /\ UNCHANGED handoff_tables
    /\ Goto(r, "call")
    /\ loc' = [loc EXCEPT
                 ![r].llm_messages = LlmMessages(SystemPrompt(req[r].client_id, loc[r].knowledge,
                                          loc[r].resolved_tickets, loc[r].grid_mode),
                             loc[r].chat_history, req[r].message),
                 ![r].tokens = IF counted THEN estimate ELSE Unset,
                 ![r].max_tokens =
                     IF counted /\ ~GetMaxTokensRaises(loc[r].model_name)
                     THEN GetMaxTokens(loc[r].model_name) ELSE Unset]
    /\ UNCHANGED <<chat_sessions, knowledge_bases, now, sheet, legacy_globals, req, completion_calls, ledger_writes>>

\* Lines 137-148: the token limit check.
\* counted: token_counter returned estimate (otherwise it raised).
ChatPreflight(r, counted, estimate) ==
    /\ pc[r] = "preflight"
    /\ UNCHANGED handoff_tables
    /\ LET model_name == loc[r].model_name
           known == counted /\ ~GetMaxTokensRaises(model_name)
           max_tokens == GetMaxTokens(model_name)
           llm_messages == LlmMessages(SystemPrompt(req[r].client_id, loc[r].knowledge,
                                          loc[r].resolved_tickets, loc[r].grid_mode),
                             loc[r].chat_history, req[r].message)
       IN  IF known /\ estimate > max_tokens
           THEN /\ Finish(r, Response(200, WarningReply(model_name, estimate, max_tokens),
                                      FALSE, FALSE))
                /\ loc' = [loc EXCEPT ![r].llm_messages = llm_messages,
                                      ![r].tokens = estimate,
                                      ![r].max_tokens = max_tokens]
           ELSE /\ Goto(r, "call")
                /\ loc' = [loc EXCEPT ![r].llm_messages = llm_messages,
                                      ![r].tokens = IF counted THEN estimate ELSE Unset,
                                      ![r].max_tokens = IF known THEN max_tokens ELSE Unset]
    /\ UNCHANGED <<chat_sessions, knowledge_bases, now, sheet, legacy_globals, req, completion_calls, ledger_writes>>

\* Lines 154-190: the model answered bot_reply with this usage and cost;
\* the reply is classified.
ChatCompletionOk(r, bot_reply, usage) ==
    /\ pc[r] = "call"
    /\ UNCHANGED handoff_tables
    /\ completion_calls' = [completion_calls EXCEPT ![r] = @ + 1]
    /\ loc' = [loc EXCEPT ![r].bot_reply = bot_reply,
                          ![r].msg_tokens = usage.total_tokens,
                          ![r].msg_cost = usage.cost,
                          ![r].is_handoff = Classify(bot_reply).is_handoff,
                          ![r].is_lead = Classify(bot_reply).is_lead,
                          ![r].frontend_reply = Classify(bot_reply).frontend_reply]
    /\ Goto(r, "save")
    /\ UNCHANGED <<chat_sessions, knowledge_bases, now, sheet, legacy_globals, req, ledger_writes>>

ChatCompletionFail_FallsThrough(r, e) ==
    /\ pc[r] = "call"
    /\ UNCHANGED handoff_tables
    /\ completion_calls' = [completion_calls EXCEPT ![r] = @ + 1]
    /\ loc' = [loc EXCEPT ![r].provider_error = e]
    /\ Goto(r, "save")
    /\ UNCHANGED <<chat_sessions, knowledge_bases, now, sheet, legacy_globals, req, ledger_writes>>

\* Lines 173-175: the model call raised
ChatCompletionFail(r, e) ==
    /\ pc[r] = "call"
    /\ UNCHANGED handoff_tables
    /\ completion_calls' = [completion_calls EXCEPT ![r] = @ + 1]
    /\ loc' = [loc EXCEPT ![r].provider_error = e]
    /\ Finish(r, Response(500, ProviderErrorReply(e), FALSE, FALSE))
    /\ UNCHANGED <<chat_sessions, knowledge_bases, now, sheet, legacy_globals, req, ledger_writes>>

Upsert_OverwritesCounters(sessions, session_id, excluded) ==
    [s \in DOMAIN sessions \cup {session_id} |->
        IF s # session_id THEN sessions[s]
        ELSE IF s \in DOMAIN sessions
        THEN [sessions[s] EXCEPT
                !.messages = excluded.messages,
                !.total_tokens = excluded.total_tokens,
                !.estimated_cost = excluded.estimated_cost,
                !.model_used = excluded.model_used,
                !.handoff_triggered = @ \/ excluded.handoff_triggered]
        ELSE excluded]

Upsert_KeepsModel(sessions, session_id, excluded) ==
    [s \in DOMAIN sessions \cup {session_id} |->
        IF s # session_id THEN sessions[s]
        ELSE IF s \in DOMAIN sessions
        THEN [sessions[s] EXCEPT
                !.messages = excluded.messages,
                !.total_tokens = @ + excluded.total_tokens,
                !.estimated_cost = @ + excluded.estimated_cost,
                !.handoff_triggered = @ \/ excluded.handoff_triggered]
        ELSE excluded]

Upsert_OverwritesFlag(sessions, session_id, excluded) ==
    [s \in DOMAIN sessions \cup {session_id} |->
        IF s # session_id THEN sessions[s]
        ELSE IF s \in DOMAIN sessions
        THEN [sessions[s] EXCEPT
                !.messages = excluded.messages,
                !.total_tokens = @ + excluded.total_tokens,
                !.estimated_cost = @ + excluded.estimated_cost,
                !.model_used = excluded.model_used,
                !.handoff_triggered = excluded.handoff_triggered]
        ELSE excluded]

\* Lines 197-208: INSERT ... ON CONFLICT (session_id) DO UPDATE, where
\* excluded is the row proposed for insertion
Upsert(sessions, session_id, excluded) ==
    [s \in DOMAIN sessions \cup {session_id} |->
        IF s # session_id THEN sessions[s]
        ELSE IF s \in DOMAIN sessions
        THEN [sessions[s] EXCEPT
                !.messages = excluded.messages,
                !.total_tokens = @ + excluded.total_tokens,
                !.estimated_cost = @ + excluded.estimated_cost,
                !.model_used = excluded.model_used,
                !.handoff_triggered = @ \/ excluded.handoff_triggered]
        ELSE excluded]

Appended_ToWindow(chat_history, user_message, frontend_reply) ==
    RecentHistory(chat_history)
    \o <<[role |-> "user", content |-> user_message],
         [role |-> "model", content |-> frontend_reply]>>

\* Lines 194-195: the turn appended to the transcript read at line 108
Appended(chat_history, user_message, frontend_reply) ==
    chat_history \o <<[role |-> "user", content |-> user_message],
                      [role |-> "model", content |-> frontend_reply]>>

\* Lines 192-217: the ledger write, committed, and the response
ChatSave(r) ==
    /\ pc[r] = "save"
    /\ UNCHANGED handoff_tables
    /\ IF HasSession(req[r].session_id)
       THEN /\ chat_sessions' =
                  Upsert(chat_sessions, req[r].session_id,
                         [client_id |-> req[r].client_id,
                          messages |-> Appended(loc[r].chat_history, req[r].message,
                                                loc[r].frontend_reply),
                          total_tokens |-> loc[r].msg_tokens,
                          estimated_cost |-> loc[r].msg_cost,
                          model_used |-> loc[r].model_name,
                          handoff_triggered |-> loc[r].is_handoff])
            /\ ledger_writes' = [ledger_writes EXCEPT ![r] = @ + 1]
       ELSE UNCHANGED <<chat_sessions, ledger_writes>>
    /\ Finish(r, Response(200, TextReply(loc[r].frontend_reply),
                          loc[r].is_handoff, loc[r].is_lead))
    /\ UNCHANGED <<knowledge_bases, now, sheet, legacy_globals, req, loc, completion_calls>>

\* Lines 197-209 inside the same try: the INSERT or the commit raised, nothing
\* is written
ChatSaveFail(r) ==
    /\ pc[r] = "save"
    /\ HasSession(req[r].session_id)
    /\ Finish(r, UnhandledFault)
    /\ UNCHANGED <<chat_sessions, knowledge_bases, now, sheet, legacy_globals, req, loc, completion_calls,
                   ledger_writes, handoff_tables>>

\* ------------------------------------------------------------ the inputs
Digits == <<"1","2","3","4","5","6","7","8","9">>
\* the question of the r-th request
Question(r) == <<"q", Digits[r]>>

SEG_OK == <<"O","k",".">>
SEG_SPACE == <<" ">>
SEG_LEAD == <<"[","L","E","A","D","_","R","E","Q","U","I","R","E","D","]">>
SEG_LEAD_HEAD == <<"[","l","e","a","d","_">>
SEG_HANDOFF == <<"[","H","a","n","d","o","f","f","_","R","e","q","u","i","r","e","d","]">>
SEG_HANDOFF_HEAD == <<"[","h","a","n","d","o","f","f","_">>
SEG_TAIL == <<"r","e","q","u","i","r","e","d","]">>

\* raw model outputs of the ledger runs: an answer, an escalation, a lead
PlainOutput == SEG_OK
HandoffOutput == SEG_HANDOFF
LeadOutput == SEG_OK \o SEG_SPACE \o SEG_LEAD
LedgerOutputs == {PlainOutput, HandoffOutput, LeadOutput}

\* response.usage.total_tokens and completion_cost of one call
LedgerUsages == {[total_tokens |-> 5, cost |-> 1], [total_tokens |-> 9, cost |-> 0]}

\* the bodies of the ledger runs: turns of acme on two sessions, and a turn
\* of bolt (another model) on an inline grid, on the first session id
LedgerBodies(r) ==
    {[client_id |-> "acme", message |-> Question(r), session_id |-> s,
      temp_context |-> None] : s \in {"s1", "s2"}}
    \cup {[client_id |-> "bolt", message |-> Question(r), session_id |-> "s1",
           temp_context |-> "grid-1"]}

\* the estimates of token_counter of the ledger runs: at the limit, above it
LedgerEstimates == {SMALL_MODEL_MAX, SMALL_MODEL_MAX + 1}

\* the bindings the tenants have connected: acme a document, bolt a sheet
\* that was never synchronised; cero, dino and echo none
\* the spreadsheet as it is when the behaviour starts
InitialSheet == [modifiedTime |-> 0, version |-> 1]

\* the legacy process has escalated the message m0 of u1, and
\* refresh_knowledge_bases loaded one learned pair
InitialEscalated == [m \in {"m0"} |-> [customer_id |-> "u1", query_text |-> "refund?"]]

InitialLearned == <<[original_customer_query |-> "hours?", learned_answer |-> "nine to five"]>>

InitialBindings ==
    <<[client_id |-> "acme", file_id |-> "doc-1", file_type |-> "doc",
       sheet_range |-> None, cached_content |-> <<"rec-a">>, last_synced_at |-> 0],
      [client_id |-> "bolt", file_id |-> "sheet-1", file_type |-> "sheet",
       sheet_range |-> "A1:Z100", cached_content |-> NullContent,
       last_synced_at |-> NoTime]>>

\* the clusters at the start: an open and an answered question of acme, an
\* open question of dino
InitialClusters ==
    [id \in 1..3 |->
        CASE id = 1 -> [client_id |-> "acme", combined_question |-> "red?",
                        status |-> "pending", answer |-> None, updated_at |-> 0]
          [] id = 2 -> [client_id |-> "dino", combined_question |-> "hours?",
                        status |-> "pending", answer |-> None, updated_at |-> 0]
          [] id = 3 -> [client_id |-> "acme", combined_question |-> "ship?",
                        status |-> "resolved", answer |-> "yes", updated_at |-> 0]]

\* and the people who asked them
InitialAskers ==
    <<[cluster_id |-> 1, user_email |-> "ann@mail", original_question |-> "red?"],
      [cluster_id |-> 2, user_email |-> "dan@mail", original_question |-> "hours?"],
      [cluster_id |-> 3, user_email |-> "sam@mail", original_question |-> "ship?"]>>

\* the knowledge columns of table clients, which the monolithic server reads:
\* acme has a sheet with a cache, bolt a sheet never synchronised
InitialClients ==
    [c \in DOMAIN ClientTable |->
        CASE c = "acme" -> [sheet_id |-> "sheet-a", sheet_range |-> "A1:Z100",
                            cached_content |-> <<"rec-a">>, last_synced_at |-> 0]
          [] c = "bolt" -> [sheet_id |-> "sheet-b", sheet_range |-> "A1:Z100",
                            cached_content |-> NullContent, last_synced_at |-> NoTime]
          [] OTHER -> [sheet_id |-> None, sheet_range |-> None,
                       cached_content |-> NullContent, last_synced_at |-> NoTime]]

Init ==
    /\ handoff_clusters = InitialClusters
    /\ handoff_users = InitialAskers
    /\ outbox = {}
    /\ clients = InitialClients
    /\ chat_sessions = [s \in {} |-> None]
    /\ knowledge_bases = InitialBindings
    /\ now = 1
    /\ sheet = InitialSheet
    /\ escalated_queries_awaiting_reply = InitialEscalated
    /\ learned_qna_data = InitialLearned
    /\ pc = [r \in Reqs |-> "idle"]
    /\ req = [r \in Reqs |-> NoData]
    /\ loc = [r \in Reqs |-> InitLoc]
    /\ resp = [r \in Reqs |-> NoResp]
    /\ completion_calls = [r \in Reqs |-> 0]
    /\ ledger_writes = [r \in Reqs |-> 0]

NoMeta == [ok |-> FALSE, modifiedTime |-> NoTime]

\* the session ledger under concurrent turns of one tenant
Next ==
    \E r \in Reqs :
        \/ \E data \in LedgerBodies(r) : ChatStart(r, data, TRUE, FALSE)
        \/ ChatKbStep(r, NoMeta, NullContent)
        \/ ChatKbDone(r)
        \/ ChatReadHistory(r)
        \/ \E estimate \in LedgerEstimates : ChatPreflight(r, TRUE, estimate)
        \/ \E bot_reply \in LedgerOutputs, usage \in LedgerUsages :
              ChatCompletionOk(r, bot_reply, usage)
        \/ ChatCompletionFail(r, "timeout")
        \/ ChatSave(r)

Spec == Init /\ [][Next]_vars

\* ---------------------------------------------------------- a single turn
\* every raw model output of at most n segments
Segments ==
    {SEG_OK, SEG_SPACE, SEG_LEAD, SEG_LEAD_HEAD, SEG_HANDOFF, SEG_HANDOFF_HEAD, SEG_TAIL}

RECURSIVE Outputs(_)
Outputs(n) ==
    IF n = 0 THEN {<<>>}
    ELSE Outputs(n - 1) \cup {s \o g : s \in Outputs(n - 1), g \in Segments}

TurnOutputs == Outputs(MaxSegs)

\* every tenant and an unknown client, with and without a session id, with
\* and without an inline grid, and a request without body
TurnBodies ==
    {[client_id |-> c, message |-> Question(1), session_id |-> s, temp_context |-> g] :
        c \in DOMAIN ClientTable \cup {"nobody"},
        s \in {"s1", "s2", "s3", None},
        g \in {"grid-1", EMPTY_GRID, None}}
    \cup {NoData, ListBody}

TurnEstimates ==
    {SMALL_MODEL_MAX, SMALL_MODEL_MAX + 1, DEFAULT_MAX_TOKENS, DEFAULT_MAX_TOKENS + 1}

\* answers of the drive and of the sheet fetch for bolt's sheet
TurnMetas == {NoMeta, [ok |-> TRUE, modifiedTime |-> 1]}
TurnFetches == {NullContent, <<>>, <<"rec-b">>}

\* session s1 holds an earlier turn of acme
EarlierTurn ==
    [client_id |-> "acme",
     messages |-> <<[role |-> "user", content |-> Question(9)],
                    [role |-> "model", content |-> SEG_OK]>>,
     total_tokens |-> 5, estimated_cost |-> 1, model_used |-> "small-model",
     handoff_triggered |-> FALSE]

\* session s3 holds four earlier turns of acme, more than the window
LongTurn ==
    [EarlierTurn EXCEPT
        !.messages = [i \in 1..8 |-> [role |-> IF i % 2 = 1 THEN "user" ELSE "model",
                                      content |-> Question(i)]]]

InitialSessions == [s \in {"s1", "s3"} |-> IF s = "s1" THEN EarlierTurn ELSE LongTurn]

InitTurn ==
    /\ handoff_clusters = InitialClusters
    /\ handoff_users = InitialAskers
    /\ outbox = {}
    /\ clients = InitialClients
    /\ chat_sessions = InitialSessions
    /\ knowledge_bases = InitialBindings
    /\ now = 1
    /\ sheet = InitialSheet
    /\ escalated_queries_awaiting_reply = InitialEscalated
    /\ learned_qna_data = InitialLearned
    /\ pc = [r \in Reqs |-> "idle"]
    /\ req = [r \in Reqs |-> NoData]
    /\ loc = [r \in Reqs |-> InitLoc]
    /\ resp = [r \in Reqs |-> NoResp]
    /\ completion_calls = [r \in Reqs |-> 0]
    /\ ledger_writes = [r \in Reqs |-> 0]

\* one turn, on every input
NextTurn ==
    \/ \E data \in TurnBodies, conn_ok \in BOOLEAN, drive_ok \in BOOLEAN :
          ChatStart(1, data, conn_ok, drive_ok)
    \/ \E meta \in TurnMetas, fetched \in TurnFetches : ChatKbStep(1, meta, fetched)
    \/ ChatKbBegin(1)
    \/ ChatKbWrite(1)
    \/ ChatSyncFail(1)
    \/ ChatKbDone(1)
    \/ ChatReadHistory(1)
    \/ ChatReadHistoryFail(1)
    \/ \E counted \in BOOLEAN, estimate \in TurnEstimates :
          ChatPreflight(1, counted, estimate)
    \/ \E bot_reply \in TurnOutputs : ChatCompletionOk(1, bot_reply, [total_tokens |-> 7, cost |-> 2])
    \/ ChatCompletionFail(1, "timeout")
    \/ ChatSave(1)
    \/ ChatSaveFail(1)

SpecTurn == InitTurn /\ [][NextTurn]_vars

\* ------------------------------------------------------------ the claims
SessionIds == {"s1", "s2"}

\* the requests whose ledger write on session s has been committed
Writers(s) == {r \in Reqs : ledger_writes[r] > 0 /\ req[r].session_id = s}

RECURSIVE SumTokens(_)
SumTokens(W) ==
    IF W = {} THEN 0
    ELSE LET r == CHOOSE x \in W : TRUE IN loc[r].msg_tokens + SumTokens(W \ {r})

RECURSIVE SumCost(_)
SumCost(W) ==
    IF W = {} THEN 0
    ELSE LET r == CHOOSE x \in W : TRUE IN loc[r].msg_cost + SumCost(W \ {r})

\* the transcript holds the user turn q directly followed by the assistant turn a
HasTurn(messages, q, a) ==
    \E i \in 1..(Len(messages) - 1) :
        /\ messages[i] = [role |-> "user", content |-> q]
        /\ messages[i + 1] = [role |-> "model", content |-> a]

\* C1: when two turns of one session have both committed their ledger write,
\* the persisted transcript of the session holds the user+assistant pair of
\* both turns.
C1_NoTurnLost ==
    \A r1 \in Reqs, r2 \in Reqs :
        (r1 # r2 /\ ledger_writes[r1] > 0 /\ r2 \in Writers(req[r1].session_id))
        => LET messages == chat_sessions[req[r1].session_id].messages
           IN  /\ HasTurn(messages, req[r1].message, loc[r1].frontend_reply)
               /\ HasTurn(messages, req[r2].message, loc[r2].frontend_reply)

\* C2: for every session id, the row's total_tokens and estimated_cost are the
\* sums of the contributions of the turns that committed their ledger write on
\* it, and there is a row exactly when there is such a turn.
C2_CountersAreSums ==
    \A s \in SessionIds :
        IF Writers(s) = {}
        THEN s \notin DOMAIN chat_sessions
        ELSE /\ s \in DOMAIN chat_sessions
             /\ chat_sessions[s].total_tokens = SumTokens(Writers(s))
             /\ chat_sessions[s].estimated_cost = SumCost(Writers(s))

\* two turns with different contributions were written on one session, the
\* second on a transcript read before the first was committed
C2_Witness ==
    \E r1 \in Reqs, r2 \in Reqs, s \in SessionIds :
        /\ r1 # r2 /\ {r1, r2} \subseteq Writers(s)
        /\ loc[r1].msg_tokens # loc[r2].msg_tokens
        /\ Len(chat_sessions[s].messages) = 2

\* C3: the ledger write of a turn is merge(old, new): a fresh row holding this
\* turn's transcript, tokens, cost, model and escalation flag for an unseen
\* session id; for an existing one the transcript replaced by the caller's,
\* tokens and cost old+new, the model the new one, the flag old OR new; no
\* other row changes.
C3_UpsertIsMerge ==
    [][\A r \in Reqs :
          (pc[r] = "save" /\ pc'[r] = "done" /\ req[r].session_id # None)
          => LET s == req[r].session_id
                 transcript ==
                     loc[r].chat_history
                     \o <<[role |-> "user", content |-> req[r].message],
                          [role |-> "model", content |-> loc[r].frontend_reply]>>
             IN  /\ DOMAIN chat_sessions' = DOMAIN chat_sessions \cup {s}
                 /\ \A o \in DOMAIN chat_sessions \ {s} :
                       chat_sessions'[o] = chat_sessions[o]
                 /\ chat_sessions'[s].messages = transcript
                 /\ chat_sessions'[s].model_used = ClientTable[req[r].client_id].model_name
                 /\ IF s \in DOMAIN chat_sessions
                    THEN /\ chat_sessions'[s].total_tokens =
                               chat_sessions[s].total_tokens + loc[r].msg_tokens
                         /\ chat_sessions'[s].estimated_cost =
                               chat_sessions[s].estimated_cost + loc[r].msg_cost
                         /\ chat_sessions'[s].handoff_triggered =
                               (chat_sessions[s].handoff_triggered \/ loc[r].is_handoff)
                         /\ chat_sessions'[s].client_id = chat_sessions[s].client_id
                    ELSE /\ chat_sessions'[s].total_tokens = loc[r].msg_tokens
                         /\ chat_sessions'[s].estimated_cost = loc[r].msg_cost
                         /\ chat_sessions'[s].handoff_triggered = loc[r].is_handoff
                         /\ chat_sessions'[s].client_id = req[r].client_id
      ]_vars

\* a row that a second turn, run after the first, has merged into
C3_Witness ==
    \E r1 \in Reqs, r2 \in Reqs, s \in SessionIds :
        /\ r1 # r2 /\ {r1, r2} \subseteq Writers(s)
        /\ chat_sessions[s].messages =
              <<[role |-> "user", content |-> req[r1].message],
                [role |-> "model", content |-> loc[r1].frontend_reply],
                [role |-> "user", content |-> req[r2].message],
                [role |-> "model", content |-> loc[r2].frontend_reply]>>
        /\ loc[r1].is_handoff /\ ~loc[r2].is_handoff
        /\ loc[r1].model_name # loc[r2].model_name
        /\ chat_sessions[s].model_used = loc[r2].model_name

\* C4: a session row is never removed, its total_tokens and estimated_cost
\* never decrease from one state to the next, and a true handoff_triggered
\* stays true.
C4_CountersMonotonic ==
    [][\A s \in DOMAIN chat_sessions :
          /\ s \in DOMAIN chat_sessions'
          /\ chat_sessions'[s].total_tokens >= chat_sessions[s].total_tokens
          /\ chat_sessions'[s].estimated_cost >= chat_sessions[s].estimated_cost
          /\ chat_sessions[s].handoff_triggered => chat_sessions'[s].handoff_triggered
      ]_vars

\* an escalated session whose latest persisted turn is not an escalation
C4_Witness ==
    \E s \in DOMAIN chat_sessions :
        /\ chat_sessions[s].handoff_triggered
        /\ Len(chat_sessions[s].messages) = 4
        /\ chat_sessions[s].messages[4].content # HANDOFF_APOLOGY
        /\ chat_sessions[s].total_tokens > 0

\* the maximum context size of the tenants' models, 8000 where it is unknown
ContextSize(model_name) ==
    CASE model_name = "small-model" -> SMALL_MODEL_MAX
      [] model_name = "custom-model" -> DEFAULT_MAX_TOKENS

C6_ProviderFailure ==
    \A r \in Reqs :
        loc[r].provider_error # None
        => /\ pc[r] = "done"
           /\ resp[r] = Response(500, ProviderErrorReply(loc[r].provider_error), FALSE, FALSE)
           /\ completion_calls[r] = 1
           /\ ledger_writes[r] = 0

\* a failed turn on a session that another turn has written
C6_Witness ==
    \E r \in Reqs :
        /\ loc[r].provider_error # None
        /\ req[r].session_id \in DOMAIN chat_sessions

\* a request, served with a database connection, of a tenant without bindings
\* and without inline grid
ZeroBindingRequest(r) ==
    /\ req[r] \notin {NoData, ListBody}
    /\ resp[r] # Response(500, DB_FAILED_REPLY, FALSE, FALSE)
    /\ req[r].client_id \in DOMAIN ClientTable
    /\ BindingsOf(req[r].client_id) = <<>>
    /\ req[r].temp_context = None

Configured(client_id) ==
    /\ ClientTable[client_id].api_key # None
    /\ ClientTable[client_id].model_name # None

\* C7 as stated: every request of a tenant with zero bindings and no inline
\* grid returns the not-ready reply and performs no model invocation.
C7_Original ==
    \A r \in Reqs :
        ZeroBindingRequest(r)
        => /\ pc[r] = "done"
           /\ resp[r] = Response(200, NOT_READY_REPLY, FALSE, FALSE)
           /\ completion_calls[r] = 0

\* C7 amended: the request performs no model invocation, and it returns the
\* not-ready reply when the tenant has a credential and a model identifier.
C7_NotReady ==
    \A r \in Reqs :
        ZeroBindingRequest(r)
        => /\ pc[r] = "done"
           /\ completion_calls[r] = 0
           /\ Configured(req[r].client_id)
                 => resp[r] = Response(200, NOT_READY_REPLY, FALSE, FALSE)

\* a configured tenant without bindings was told "not ready"
C7_Witness ==
    \E r \in Reqs :
        /\ ZeroBindingRequest(r)
        /\ Configured(req[r].client_id)
        /\ resp[r].reply = NOT_READY_REPLY

\* the token occurs in the text, letters compared without case
HasToken(text, token) ==
    \E i \in 1..(Len(text) - Len(token) + 1) :
        \A j \in 1..Len(token) : LowerChar(text[i + j - 1]) = token[j]

\* the request got an answer from the model and has returned a response
Answered(r) ==
    /\ pc[r] = "done" /\ completion_calls[r] = 1 /\ loc[r].provider_error = None
    /\ resp[r] # UnhandledFault

\* C8: the response signals exactly one of none, handoff, lead: handoff
\* whenever the handoff token is in the raw output, lead only when the lead
\* token is in it and the handoff token is not, and with neither token the
\* reply is the raw text and no flag is set.
C8_OneSignal ==
    \A r \in Reqs :
        Answered(r)
        => LET raw == loc[r].bot_reply
               handoff == HasToken(raw, HANDOFF_TOKEN)
               lead == HasToken(raw, LEAD_TOKEN)
           IN  /\ resp[r].status = 200
               /\ resp[r].handoff = handoff
               /\ resp[r].lead = (lead /\ ~handoff)
               /\ ~(resp[r].handoff /\ resp[r].lead)
               /\ (~handoff /\ ~lead) => resp[r].reply = TextReply(raw)

\* a raw output holding both tokens was answered as a handoff
C8_Witness ==
    \E r \in Reqs :
        /\ Answered(r)
        /\ HasToken(loc[r].bot_reply, HANDOFF_TOKEN)
        /\ HasToken(loc[r].bot_reply, LEAD_TOKEN)
        /\ resp[r].handoff /\ ~resp[r].lead

\* C9: neither reserved token occurs, in any letter case, in the reply of an
\* answered request nor in an assistant turn of a persisted transcript.
C9_NoTokenShown ==
    /\ \A r \in Reqs :
          Answered(r)
          => /\ ~HasToken(resp[r].reply.chars, HANDOFF_TOKEN)
             /\ ~HasToken(resp[r].reply.chars, LEAD_TOKEN)
    /\ \A s \in DOMAIN chat_sessions :
          \A i \in 1..Len(chat_sessions[s].messages) :
             chat_sessions[s].messages[i].role = "model"
             => /\ ~HasToken(chat_sessions[s].messages[i].content, HANDOFF_TOKEN)
                /\ ~HasToken(chat_sessions[s].messages[i].content, LEAD_TOKEN)

\* the text with every match of the token (letters compared without case,
\* left to right) taken out and every other character kept
RECURSIVE WithoutToken(_, _)
WithoutToken(text, token) ==
    IF Len(text) < Len(token) THEN text
    ELSE IF HasToken(SubSeq(text, 1, Len(token)), token)
    THEN WithoutToken(SubSeq(text, Len(token) + 1, Len(text)), token)
    ELSE <<Head(text)>> \o WithoutToken(Tail(text), token)

\* C10: when the raw output holds the lead token and not the handoff token,
\* the reply is the raw text with the token taken out and the surrounding
\* whitespace trimmed, every other character as the model produced it.
C10_LeadReplyKeepsText ==
    \A r \in Reqs :
        (Answered(r) /\ HasToken(loc[r].bot_reply, LEAD_TOKEN)
            /\ ~HasToken(loc[r].bot_reply, HANDOFF_TOKEN))
        => resp[r].reply = TextReply(Strip(WithoutToken(loc[r].bot_reply, LEAD_TOKEN)))

\* ------------------------------------------- POST /api/handoff/request
\* None for a cluster id: JSON null, and the local before it is assigned
NoId == 0
\* a merged phrasing returned by the classifier
MERGED == "red, black?"

\* Lines 47-51: the ids and the combined questions read at line 47, and the
\* locals before the classifier is asked
HandoffLoc(pending_clusters, question) ==
    [pending_clusters |-> pending_clusters,
     pending_rows |-> [id \in pending_clusters |-> handoff_clusters[id].combined_question],
     assigned_cluster_id |-> NoId,
     combined_q |-> question, clustering |-> "skipped", created |-> FALSE]

\* the responses of the handoff routes
HandoffSuccess == [status |-> 200, success |-> TRUE]
HandoffError(status, error) == [status |-> status, success |-> FALSE, error |-> error]

\* Line 47: SELECT id ... WHERE client_id = %s AND status = 'pending'
PendingClusters(client_id) ==
    {id \in DOMAIN handoff_clusters :
        /\ handoff_clusters[id].client_id = client_id
        /\ handoff_clusters[id].status = "pending"}

\* Lines 37-58: the body, the connection, the tenant's pending clusters and
\* the decision to ask the classifier
HandoffStart(r, data, conn_ok) ==
    /\ pc[r] = "idle"
    /\ req' = [req EXCEPT ![r] = data]
    /\ UNCHANGED <<chat_sessions, knowledge_bases, now, sheet, legacy_globals, completion_calls, ledger_writes,
                   handoff_tables>>
    /\ IF data = NoData \/ ~conn_ok
       THEN Finish(r, UnhandledFault) /\ UNCHANGED loc
       ELSE LET pending_clusters == PendingClusters(data.client_id)
                has_key == /\ data.client_id \in DOMAIN ClientTable
                           /\ ClientTable[data.client_id].api_key # None
            IN  /\ loc' = [loc EXCEPT ![r] = HandoffLoc(pending_clusters, data.question)]
                /\ Goto(r, IF pending_clusters # {} /\ has_key THEN "classify"
                           ELSE "cluster_write")

\* Lines 68-80: the classifier call. answer.kind is "raised" (completion
\* raised), "not_json" (json.loads raised), "not_object" (.get raised) or
\* "object" with the two keys read by .get; completion called with model
\* None raises
HandoffClassify(r, answer) ==
    /\ pc[r] = "classify"
    /\ ClientTable[req[r].client_id].model_name = None => answer.kind = "raised"
    /\ completion_calls' = [completion_calls EXCEPT ![r] = @ + 1]
    /\ loc' = [loc EXCEPT
                 ![r].clustering = answer.kind,
                 ![r].assigned_cluster_id =
                     IF answer.kind = "object" THEN answer.cluster_id ELSE @,
                 ![r].combined_q =
                     IF answer.kind = "object" /\ answer.combined_question # None
                     THEN answer.combined_question ELSE @]
    /\ Goto(r, "cluster_write")
    /\ UNCHANGED <<chat_sessions, knowledge_bases, now, sheet, legacy_globals, req, ledger_writes, handoff_tables>>

\* RETURNING id of a serial column; no row is ever deleted
NewClusterId == Cardinality(DOMAIN handoff_clusters) + 1

UpdateCluster_KeepsText(clusters, id, combined_q, stamp) ==
    [c \in DOMAIN clusters |->
        IF c = id THEN [clusters[c] EXCEPT !.updated_at = stamp] ELSE clusters[c]]

\* Line 84: UPDATE handoff_clusters SET combined_question ... WHERE id = %s
UpdateCluster(clusters, id, combined_q, stamp) ==
    [c \in DOMAIN clusters |->
        IF c = id
        THEN [clusters[c] EXCEPT !.combined_question = combined_q, !.updated_at = stamp]
        ELSE clusters[c]]

InsertCluster_Merged(clusters, id, client_id, question, stamp) ==
    [c \in DOMAIN clusters \cup {id} |->
        IF c = id
        THEN [client_id |-> client_id, combined_question |-> MERGED,
              status |-> "pending", answer |-> None, updated_at |-> stamp]
        ELSE clusters[c]]

\* Line 86: INSERT INTO handoff_clusters (client_id, combined_question); the
\* other columns take their defaults
InsertCluster(clusters, id, client_id, question, stamp) ==
    [c \in DOMAIN clusters \cup {id} |->
        IF c = id
        THEN [client_id |-> client_id, combined_question |-> question,
              status |-> "pending", answer |-> None, updated_at |-> stamp]
        ELSE clusters[c]]

\* Lines 82-95: the cluster write, the asker row, the commit.
\* fk_enforced: handoff_users.cluster_id is declared as a foreign key, so
\* that the INSERT of line 89 raises for an id that is no cluster.
HandoffWrite(r, fk_enforced) ==
    /\ pc[r] = "cluster_write"
    /\ LET assigned == loc[r].assigned_cluster_id
           cluster_id == IF assigned # NoId THEN assigned ELSE NewClusterId
           asker == [cluster_id |-> cluster_id, user_email |-> req[r].email,
                     original_question |-> req[r].question]
       IN  IF assigned # NoId /\ assigned \notin DOMAIN handoff_clusters /\ fk_enforced
           THEN /\ Finish(r, HandoffError(500, "foreign key violation"))
                /\ UNCHANGED <<handoff_clusters, handoff_users, loc>>
           ELSE /\ handoff_clusters' =
                      IF assigned # NoId
                      THEN UpdateCluster(handoff_clusters, assigned, loc[r].combined_q, now)
                      ELSE InsertCluster(handoff_clusters, cluster_id, req[r].client_id,
                                         req[r].question, now)
                /\ handoff_users' = Append(handoff_users, asker)
                /\ loc' = [loc EXCEPT ![r].assigned_cluster_id = cluster_id,
                                      ![r].created = (assigned = NoId)]
                /\ Finish(r, HandoffSuccess)
    /\ UNCHANGED <<chat_sessions, knowledge_bases, now, sheet, legacy_globals, req, completion_calls,
                   ledger_writes, outbox, clients>>

\* ------------------------------------------- POST /api/handoff/resolve
UNAUTHORIZED == HandoffError(401, "Unauthorized")
MISSING_FIELDS == HandoffError(400, "Missing cluster_id or answer")
RESOLVE_DB_FAILED == HandoffError(500, "Database connection failed")

ResolveSuccess(email_status) ==
    [status |-> 200, success |-> TRUE, email_status |-> email_status]

\* Line 142: UPDATE handoff_clusters SET status = 'resolved', answer = %s
\* WHERE id = %s AND client_id = %s
ResolveCluster(clusters, id, client_id, answer) ==
    [c \in DOMAIN clusters |->
        IF c = id /\ clusters[c].client_id = client_id
        THEN [clusters[c] EXCEPT !.status = "resolved", !.answer = answer]
        ELSE clusters[c]]

\* Line 143: SELECT user_email, original_question FROM handoff_users
\* WHERE cluster_id = %s, and set(users) of line 163
AskersOf(cluster_id) ==
    {[user_email |-> handoff_users[i].user_email,
      original_question |-> handoff_users[i].original_question] :
        i \in {j \in 1..Len(handoff_users) : handoff_users[j].cluster_id = cluster_id}}

\* Lines 126-147: the login, the body, the connection, the UPDATE, the SELECT
\* of the askers and the commit.
\* session_client: session['client_id'], None without login.
ResolveStart(r, session_client, data, conn_ok) ==
    /\ pc[r] = "idle"
    /\ req' = [req EXCEPT ![r] = [session_client |-> session_client,
                                  cluster_id |-> data.cluster_id, answer |-> data.answer]]
    /\ UNCHANGED <<chat_sessions, knowledge_bases, now, sheet, legacy_globals, completion_calls, ledger_writes,
                   handoff_users, outbox, clients>>
    /\ IF session_client = None
       THEN Finish(r, UNAUTHORIZED) /\ UNCHANGED <<loc, handoff_clusters>>
       ELSE IF data.cluster_id = NoId \/ data.answer = None
       THEN Finish(r, MISSING_FIELDS) /\ UNCHANGED <<loc, handoff_clusters>>
       ELSE IF ~conn_ok
       THEN Finish(r, RESOLVE_DB_FAILED) /\ UNCHANGED <<loc, handoff_clusters>>
       ELSE /\ handoff_clusters' =
                  ResolveCluster(handoff_clusters, data.cluster_id, session_client,
                                 data.answer)
            /\ loc' = [loc EXCEPT ![r] = [users |-> AskersOf(data.cluster_id)]]
            /\ Goto(r, "notify")

\* the message of lines 164-169
Mail(user, answer) ==
    [to |-> user.user_email, original_question |-> user.original_question,
     answer |-> answer]

\* Lines 150-180: the mails to the askers read at line 143.
\* smtp_configured: both environment variables are set;
\* delivered: the askers whose message was sent before the SMTP session
\* ended, all of them when it did not fail.
ResolveNotify(r, smtp_configured, delivered) ==
    /\ pc[r] = "notify"
    /\ delivered \subseteq loc[r].users
    /\ LET users == loc[r].users
           sending == users # {} /\ smtp_configured
           email_status ==
               IF users = {} THEN "No users found attached to this question."
               ELSE IF ~smtp_configured
               THEN "Missing SMTP_EMAIL or SMTP_PASSWORD in backend environment variables"
               ELSE IF delivered = users THEN "Success"
               ELSE "SMTP Error"
       IN  /\ sending \/ delivered = {}
           /\ outbox' = outbox \cup {Mail(u, req[r].answer) : u \in delivered}
           /\ Finish(r, ResolveSuccess(email_status))
    /\ UNCHANGED <<chat_sessions, knowledge_bases, now, sheet, legacy_globals, req, loc, completion_calls,
                   ledger_writes, handoff_clusters, handoff_users, clients>>

\* ------------------------------------------------- the handoff inbox
Emails == <<"eve@mail", "fay@mail", "gus@mail", "hal@mail">>
NewQuestions == <<"black?", "blue?", "green?", "grey?">>
Answers == <<"yes, both", "no", "maybe", "soon">>

\* the handoff requests of the r-th operation: of acme (a key, an open
\* question), of dino (no key, an open question), of echo (a key, no model
\* identifier, no open question at the start), and a request without body
HandoffBodies(r) ==
    {[client_id |-> c, email |-> Emails[r], question |-> NewQuestions[r]] :
        c \in {"acme", "dino", "echo"}}
    \cup {NoData}

\* a cluster id that is never assigned
GHOST_ID == 9

\* the answers of the classifier
ClassifierAnswers ==
    {[kind |-> k, cluster_id |-> NoId, combined_question |-> None] :
        k \in {"raised", "not_json", "not_object"}}
    \cup {[kind |-> "object", cluster_id |-> id, combined_question |-> q] :
            id \in {NoId, 1, 2, 3, GHOST_ID}, q \in {None, MERGED}}

\* the resolve requests of the r-th operation
ResolveBodies(r) ==
    {[cluster_id |-> id, answer |-> a] : id \in {NoId, 1, 2, 3}, a \in {None, Answers[r]}}

\* the phrasing a classifier that follows the prompt of lines 59-66 returns
\* for an existing question and a new one
Merge(existing, question) == existing \o " + " \o question

\* the answer of such a classifier to the r-th operation when it was shown
\* the open question of cluster 1, a failure otherwise
FaithfulAnswer(r) ==
    IF pc[r] = "classify" /\ 1 \in loc[r].pending_clusters
    THEN [kind |-> "object", cluster_id |-> 1,
          combined_question |-> Merge(loc[r].pending_rows[1], req[r].question)]
    ELSE [kind |-> "raised", cluster_id |-> NoId, combined_question |-> None]

Operators == {"acme", "dino", None}

\* the askers the r-th operation is about to notify
Recipients(r) == IF pc[r] = "notify" THEN loc[r].users ELSE {}

InitHandoff ==
    /\ handoff_clusters = InitialClusters
    /\ handoff_users = InitialAskers
    /\ outbox = {}
    /\ clients = InitialClients
    /\ chat_sessions = [s \in {} |-> None]
    /\ knowledge_bases = InitialBindings
    /\ now = 1
    /\ sheet = InitialSheet
    /\ escalated_queries_awaiting_reply = InitialEscalated
    /\ learned_qna_data = InitialLearned
    /\ pc = [r \in Reqs |-> "idle"]
    /\ req = [r \in Reqs |-> NoData]
    /\ loc = [r \in Reqs |-> InitLoc]
    /\ resp = [r \in Reqs |-> NoResp]
    /\ completion_calls = [r \in Reqs |-> 0]
    /\ ledger_writes = [r \in Reqs |-> 0]

\* handoff requests and resolves, interleaved
NextHandoff ==
    \E r \in Reqs :
        \/ \E data \in HandoffBodies(r), conn_ok \in BOOLEAN : HandoffStart(r, data, conn_ok)
        \/ \E answer \in ClassifierAnswers \cup {FaithfulAnswer(r)} :
              HandoffClassify(r, answer)
        \/ \E fk_enforced \in BOOLEAN : HandoffWrite(r, fk_enforced)
        \/ \E session_client \in Operators, data \in ResolveBodies(r), conn_ok \in BOOLEAN :
              ResolveStart(r, session_client, data, conn_ok)
        \/ \E smtp_configured \in BOOLEAN, delivered \in SUBSET Recipients(r) :
              ResolveNotify(r, smtp_configured, delivered)

SpecHandoff == InitHandoff /\ [][NextHandoff]_vars

\* ---------------------------------------------- the claims on handoffs
\* C12: once a cluster is resolved, no step sets its status back to pending
\* or replaces its resolution answer.
C12_ResolvedIsFinal ==
    [][\A id \in DOMAIN handoff_clusters :
          handoff_clusters[id].status = "resolved"
          => /\ handoff_clusters'[id].status = "resolved"
             /\ handoff_clusters'[id].answer = handoff_clusters[id].answer]_vars

FailureKinds == {"raised", "not_json", "not_object"}

\* the r-th operation is a handoff request that got past body and connection
IsHandoffRequest(r) == "email" \in DOMAIN req[r] /\ "clustering" \in DOMAIN loc[r]

\* the cases of C13: no pending cluster, "new topic", a failed classifier call
NewClusterCase(r) ==
    \/ loc[r].pending_clusters = {}
    \/ loc[r].clustering = "object" /\ loc[r].assigned_cluster_id = NoId
    \/ loc[r].clustering \in FailureKinds

\* C13: in the cases above the write step of a handoff request adds exactly
\* one cluster, pending, of the tenant, whose combined question is the raw
\* question, changes no other cluster, and returns success.
C13_NewClusterVerbatim ==
    [][\A r \in Reqs :
          (IsHandoffRequest(r) /\ pc[r] = "cluster_write" /\ pc'[r] = "done"
           /\ NewClusterCase(r))
          => /\ \E id \in DOMAIN handoff_clusters' \ DOMAIN handoff_clusters :
                   /\ DOMAIN handoff_clusters' = DOMAIN handoff_clusters \cup {id}
                   /\ handoff_clusters'[id].client_id = req[r].client_id
                   /\ handoff_clusters'[id].combined_question = req[r].question
                   /\ handoff_clusters'[id].status = "pending"
             /\ \A id \in DOMAIN handoff_clusters :
                   handoff_clusters'[id] = handoff_clusters[id]
             /\ resp'[r] = HandoffSuccess]_vars

\* a request whose classifier call failed while the tenant had a pending
\* cluster has created a cluster and returned success
C13_Witness ==
    \E r \in Reqs :
        /\ IsHandoffRequest(r) /\ pc[r] = "done"
        /\ loc[r].clustering \in FailureKinds
        /\ loc[r].pending_clusters # {}
        /\ loc[r].created
        /\ handoff_clusters[loc[r].assigned_cluster_id].combined_question = req[r].question

\* the classifier matched a pending cluster of the tenant with a merged phrasing
MatchedCase(r) ==
    /\ loc[r].clustering = "object"
    /\ loc[r].assigned_cluster_id \in loc[r].pending_clusters
    /\ loc[r].combined_q = MERGED

\* C14: when the classifier matched a pending cluster of the tenant and
\* returned a merged phrasing, the write step sets that cluster's combined
\* question to the merged phrasing, creates no cluster, and appends the new
\* asker to the same cluster id after the earlier askers.
C14_MergeIntoCluster ==
    [][\A r \in Reqs :
          (IsHandoffRequest(r) /\ pc[r] = "cluster_write" /\ pc'[r] = "done"
           /\ MatchedCase(r))
          => LET id == loc[r].assigned_cluster_id
             IN  /\ DOMAIN handoff_clusters' = DOMAIN handoff_clusters
                 /\ handoff_clusters'[id].combined_question = MERGED
                 /\ handoff_users' =
                       Append(handoff_users,
                              [cluster_id |-> id, user_email |-> req[r].email,
                               original_question |-> req[r].question])]_vars

\* the cluster of "red?" now reads "red, black?" and has two askers
C14_Witness ==
    \E r \in Reqs :
        /\ IsHandoffRequest(r) /\ pc[r] = "done" /\ MatchedCase(r)
        /\ handoff_clusters[1].combined_question = MERGED
        /\ Cardinality({i \in 1..Len(handoff_users) : handoff_users[i].cluster_id = 1}) = 2

\* the asker rows of the r-th operation
AskerRows(r) ==
    {i \in 1..Len(handoff_users) :
        /\ handoff_users[i].user_email = req[r].email
        /\ handoff_users[i].original_question = req[r].question}

\* C15: a handoff request that has returned has recorded exactly one asker
\* row with its contact and its question, attached to an existing cluster.
C15_OneAskerPerRequest ==
    \A r \in Reqs :
        (IsHandoffRequest(r) /\ pc[r] = "done")
        => /\ Cardinality(AskerRows(r)) = 1
           /\ \A i \in AskerRows(r) : handoff_users[i].cluster_id \in DOMAIN handoff_clusters

\* the tenant an operation acts for, after its first step
ActingTenant(r) ==
    IF "email" \in DOMAIN req'[r] THEN req'[r].client_id
    ELSE IF "session_client" \in DOMAIN req'[r] THEN req'[r].session_client
    ELSE None

\* the addresses of the askers attached to a cluster of the tenant
AskerAddressesOf(client_id) ==
    {handoff_users[i].user_email :
        i \in {j \in 1..Len(handoff_users) :
                 /\ handoff_users[j].cluster_id \in DOMAIN handoff_clusters
                 /\ handoff_clusters[handoff_users[j].cluster_id].client_id = client_id}}

\* C17: a step of a handoff operation of tenant A changes no cluster of
\* another tenant, attaches no asker to one, and mails only askers of A's
\* clusters.
C17_HandoffTenantScoped ==
    [][\A r \in Reqs :
          (pc'[r] # pc[r] /\ ActingTenant(r) # None)
          => /\ \A id \in DOMAIN handoff_clusters :
                   handoff_clusters[id].client_id # ActingTenant(r)
                   => handoff_clusters'[id] = handoff_clusters[id]
             /\ \A i \in (Len(handoff_users) + 1)..Len(handoff_users') :
                   handoff_users'[i].cluster_id \in DOMAIN handoff_clusters
                   => handoff_clusters[handoff_users'[i].cluster_id].client_id
                         = ActingTenant(r)
             /\ \A m \in outbox' \ outbox :
                   m.to \in AskerAddressesOf(ActingTenant(r))]_vars

\* ------------------------------------- the claims on isolation and faults
\* the r-th request has a JSON object as body
HasObjectBody(r) == req[r] \notin {NoData, ListBody}

\* C16: a step of a chat request of tenant A changes no row of chat_sessions
\* whose client_id is another tenant, and its read of the transcript returns
\* nothing from such a row.
C16_SessionsTenantScoped ==
    [][\A r \in Reqs, s \in DOMAIN chat_sessions :
          (pc'[r] # pc[r] /\ req'[r] \notin {NoData, ListBody}
           /\ chat_sessions[s].client_id # req'[r].client_id)
          => /\ chat_sessions'[s] = chat_sessions[s]
             /\ (pc[r] = "history" /\ pc'[r] = "preflight" /\ req[r].session_id = s)
                   => loc'[r].chat_history = <<>>]_vars

\* C18: every step that leaves the ledger write, failed or not, returns the
\* computed reply with its handoff and lead flags.
C18_ReplySurvivesWriteFailure ==
    [][\A r \in Reqs :
          (pc[r] = "save" /\ pc'[r] = "done")
          => resp'[r] = Response(200, TextReply(loc[r].frontend_reply),
                                 loc[r].is_handoff, loc[r].is_lead)]_vars

\* C19: every request with a JSON object as body that has ended, ended with
\* a body that holds a reply.
C19_AlwaysAReply ==
    \A r \in Reqs :
        (pc[r] = "done" /\ HasObjectBody(r)) => resp[r].reply # NO_JSON_BODY

\* the tables as they were before the request
TablesUntouched ==
    /\ chat_sessions = InitialSessions
    /\ knowledge_bases = InitialBindings
    /\ handoff_clusters = InitialClusters
    /\ handoff_users = InitialAskers
    /\ clients = InitialClients

\* C20: with a database connection, a request of an unknown client returns
\* 200 "Invalid Client ID" and a request of a tenant without credential or
\* model identifier returns 200 "AI Provider not configured", both without a
\* model call and without a write; a request whose body is missing or is not
\* a JSON object returns 400 with a reply.
C20_ConfigurationErrors ==
    \A r \in Reqs :
        pc[r] = "done"
        => /\ (HasObjectBody(r) /\ resp[r] # Response(500, DB_FAILED_REPLY, FALSE, FALSE)
               /\ req[r].client_id \notin DOMAIN ClientTable)
              => /\ resp[r] = Response(200, INVALID_CLIENT_REPLY, FALSE, FALSE)
                 /\ completion_calls[r] = 0 /\ TablesUntouched
           /\ (HasObjectBody(r) /\ resp[r] # Response(500, DB_FAILED_REPLY, FALSE, FALSE)
               /\ req[r].client_id \in DOMAIN ClientTable
               /\ ~Configured(req[r].client_id))
              => /\ resp[r] = Response(200, NOT_CONFIGURED_REPLY, FALSE, FALSE)
                 /\ completion_calls[r] = 0 /\ TablesUntouched
           /\ ~HasObjectBody(r)
              => /\ resp[r].status = 400
                 /\ resp[r].reply # NO_JSON_BODY

\* ------------------------------- POST /api/chat of the monolithic server
\* the literal searched for in the lower-cased model output
MONO_HANDOFF_TOKEN ==
    <<"[","H","A","N","D","O","F","F","_","R","E","Q","U","I","R","E","D","]">>

\* Line 266: "[HANDOFF_REQUIRED]" in bot_reply.lower()
MonoClassify(bot_reply) == Contains(Lower(bot_reply), MONO_HANDOFF_TOKEN)

InternalErrorReply(e) == [fmt |-> "internal_error", error |-> e]

\* Lines 156-190: the body, the connection, the tenant and its configuration
MonoStart(r, data, conn_ok) ==
    /\ pc[r] = "idle"
    /\ req' = [req EXCEPT ![r] = data]
    /\ UNCHANGED <<chat_sessions, knowledge_bases, now, sheet, legacy_globals, completion_calls, ledger_writes,
                   handoff_tables>>
    /\ IF data = NoData
       THEN Finish(r, Response(400, NO_DATA_REPLY, FALSE, FALSE)) /\ UNCHANGED loc
       ELSE IF data = ListBody
       THEN Finish(r, UnhandledFault) /\ UNCHANGED loc
       ELSE IF ~conn_ok
       THEN Finish(r, Response(500, DB_FAILED_REPLY, FALSE, FALSE)) /\ UNCHANGED loc
       ELSE IF data.client_id \notin DOMAIN ClientTable
       THEN Finish(r, Response(200, INVALID_CLIENT_REPLY, FALSE, FALSE)) /\ UNCHANGED loc
       ELSE LET row == ClientTable[data.client_id]
            IN  IF row.api_key = None \/ row.model_name = None
                THEN Finish(r, Response(200, NOT_CONFIGURED_REPLY, FALSE, FALSE))
                     /\ UNCHANGED loc
                ELSE IF Truthy(data.temp_context)
                THEN /\ Goto(r, "mono_context")
                     /\ loc' = [loc EXCEPT ![r].model_name = row.model_name,
                                           ![r].grid_mode = TRUE,
                                           ![r].knowledge = <<data.temp_context>>]
                ELSE /\ Goto(r, "mono_kb")
                     /\ loc' = [loc EXCEPT ![r].model_name = row.model_name]

\* Lines 192-216 and sync_knowledge_base (lines 140-150): the tenant's sheet.
\* drive_ok: get_user_services returned a drive service; meta: the answer of
\* drive files().get; fetched: the answer of fetch_and_process_sheet.
MonoKb(r, drive_ok, meta, fetched) ==
    /\ pc[r] = "mono_kb"
    /\ LET row == clients[req[r].client_id]
           need_sync ==
               IF ~(drive_ok /\ row.sheet_id # None) THEN FALSE
               ELSE IF ~meta.ok THEN row.cached_content = NullContent
               ELSE row.last_synced_at = NoTime \/ meta.modifiedTime > row.last_synced_at
           written == need_sync /\ fetched # NullContent
           cached_content == IF written THEN fetched ELSE row.cached_content
       IN  /\ clients' =
                 IF written
                 THEN [clients EXCEPT ![req[r].client_id].cached_content = fetched,
                                      ![req[r].client_id].last_synced_at = now]
                 ELSE clients
           /\ IF cached_content = NullContent \/ cached_content = <<>>
              THEN Finish(r, Response(200, NOT_READY_REPLY, FALSE, FALSE)) /\ UNCHANGED loc
              ELSE /\ Goto(r, "mono_context")
                   /\ loc' = [loc EXCEPT ![r].knowledge = cached_content]
    /\ UNCHANGED <<chat_sessions, knowledge_bases, now, sheet, legacy_globals, req, completion_calls,
                   ledger_writes, handoff_clusters, handoff_users, outbox>>

\* Lines 224-256: the transcript read by session id, the message list and the
\* token limit check
MonoContext(r, counted, estimate) ==
    /\ pc[r] = "mono_context"
    /\ LET sid == req[r].session_id
           chat_history ==
               IF sid # None /\ sid \in DOMAIN chat_sessions
               THEN chat_sessions[sid].messages ELSE <<>>
           model_name == loc[r].model_name
           known == counted /\ ~GetMaxTokensRaises(model_name)
           max_tokens == GetMaxTokens(model_name)
           over == known /\ estimate > max_tokens
       IN  /\ loc' = [loc EXCEPT
                        ![r].chat_history = chat_history,
                        ![r].llm_messages =
                            LlmMessages(SystemPrompt(req[r].client_id, loc[r].knowledge,
                                                     <<>>, loc[r].grid_mode),
                                        chat_history, req[r].message),
                        ![r].tokens = IF counted THEN estimate ELSE Unset,
                        ![r].max_tokens = IF known THEN max_tokens ELSE Unset]
           /\ IF over
              THEN Finish(r, Response(200, WarningReply(model_name, estimate, max_tokens),
                                      FALSE, FALSE))
              ELSE Goto(r, "mono_call")
    /\ UNCHANGED <<chat_sessions, knowledge_bases, now, sheet, legacy_globals, req, completion_calls,
                   ledger_writes, handoff_tables>>

\* Lines 259-270: the model answered bot_reply
MonoCompletionOk(r, bot_reply) ==
    /\ pc[r] = "mono_call"
    /\ completion_calls' = [completion_calls EXCEPT ![r] = @ + 1]
    /\ loc' = [loc EXCEPT ![r].bot_reply = bot_reply,
                          ![r].is_handoff = MonoClassify(bot_reply)]
    /\ IF MonoClassify(bot_reply)
       THEN Finish(r, Response(200, TextReply(HANDOFF_APOLOGY), TRUE, FALSE))
       ELSE Goto(r, "mono_save")
    /\ UNCHANGED <<chat_sessions, knowledge_bases, now, sheet, legacy_globals, req, ledger_writes, handoff_tables>>

\* Lines 271-273: the model call raised
MonoCompletionFail(r, e) ==
    /\ pc[r] = "mono_call"
    /\ completion_calls' = [completion_calls EXCEPT ![r] = @ + 1]
    /\ loc' = [loc EXCEPT ![r].provider_error = e]
    /\ Finish(r, Response(500, ProviderErrorReply(e), FALSE, FALSE))
    /\ UNCHANGED <<chat_sessions, knowledge_bases, now, sheet, legacy_globals, req, ledger_writes, handoff_tables>>

\* Lines 280-285: INSERT (session_id, client_id, messages) ON CONFLICT
\* (session_id) DO UPDATE SET messages; the other columns take their defaults
MonoUpsert(sessions, session_id, client_id, messages) ==
    [s \in DOMAIN sessions \cup {session_id} |->
        IF s # session_id THEN sessions[s]
        ELSE IF s \in DOMAIN sessions
        THEN [sessions[s] EXCEPT !.messages = messages]
        ELSE [client_id |-> client_id, messages |-> messages, total_tokens |-> 0,
              estimated_cost |-> 0, model_used |-> None, handoff_triggered |-> FALSE]]

\* Lines 276-288: the transcript write, committed, and the response
MonoSave(r) ==
    /\ pc[r] = "mono_save"
    /\ IF req[r].session_id # None
       THEN /\ chat_sessions' =
                  MonoUpsert(chat_sessions, req[r].session_id, req[r].client_id,
                             Appended(loc[r].chat_history, req[r].message,
                                      loc[r].bot_reply))
            /\ ledger_writes' = [ledger_writes EXCEPT ![r] = @ + 1]
       ELSE UNCHANGED <<chat_sessions, ledger_writes>>
    /\ Finish(r, Response(200, TextReply(loc[r].bot_reply), FALSE, FALSE))
    /\ UNCHANGED <<knowledge_bases, now, sheet, legacy_globals, req, loc, completion_calls, handoff_tables>>

\* Lines 290-292: a statement inside the try raised (the sheet, the
\* transcript read, the transcript write); nothing is committed
MonoInternalError(r, e) ==
    /\ pc[r] \in {"mono_kb", "mono_context", "mono_save"}
    /\ Finish(r, Response(200, InternalErrorReply(e), FALSE, FALSE))
    /\ UNCHANGED <<chat_sessions, knowledge_bases, now, sheet, legacy_globals, req, loc, completion_calls,
                   ledger_writes, handoff_tables>>

\* one turn of the monolithic server, on every input
NextMono ==
    \/ \E data \in TurnBodies, conn_ok \in BOOLEAN : MonoStart(1, data, conn_ok)
    \/ \E drive_ok \in BOOLEAN, meta \in TurnMetas, fetched \in TurnFetches :
          MonoKb(1, drive_ok, meta, fetched)
    \/ \E counted \in BOOLEAN, estimate \in TurnEstimates : MonoContext(1, counted, estimate)
    \/ \E bot_reply \in TurnOutputs : MonoCompletionOk(1, bot_reply)
    \/ MonoCompletionFail(1, "timeout")
    \/ MonoSave(1)
    \/ MonoInternalError(1, "storage")

SpecMono == InitTurn /\ [][NextMono]_vars

\* C11: in each chat handler, a turn whose raw model output holds the handoff
\* token in any letter case, and which returned a reply text, returned
\* handoff = true and the fixed apology.
C11_HandoffAnyCase ==
    \A r \in Reqs :
        (pc[r] = "done" /\ completion_calls[r] = 1 /\ resp[r].reply.fmt = "text"
         /\ HasToken(loc[r].bot_reply, HANDOFF_TOKEN))
        => /\ resp[r].handoff
           /\ resp[r].reply = TextReply(HANDOFF_APOLOGY)

\* ---------------------------------------------------------------------------
\* Learning from resolved handoffs: a resolve of operation 1 interleaved with a
\* chat turn of operation 2

\* the chat requests of the learning runs: a tenant with clusters and one
\* without
LearnBodies ==
    {[client_id |-> c, message |-> Question(2), session_id |-> None, temp_context |-> "grid-1"] :
        c \in {"acme", "bolt"}}

NextLearn ==
    \/ \E session_client \in Operators, data \in ResolveBodies(1), conn_ok \in BOOLEAN :
          ResolveStart(1, session_client, data, conn_ok)
    \/ \E smtp_configured \in BOOLEAN, delivered \in SUBSET Recipients(1) :
          ResolveNotify(1, smtp_configured, delivered)
    \/ \E data \in LearnBodies : ChatStart(2, data, TRUE, FALSE)
    \/ ChatReadHistory(2)
    \/ ChatPreflight(2, TRUE, SMALL_MODEL_MAX)
    \/ ChatCompletionOk(2, PlainOutput, [total_tokens |-> 7, cost |-> 2])
    \/ ChatSave(2)

SpecLearn == InitHandoff /\ [][NextLearn]_vars

\* the question/answer pairs of a list of previously answered questions
PairsIn(tickets) == {tickets[i] : i \in DOMAIN tickets}

\* the question/answer pairs of the resolved clusters of a tenant
ResolvedPairsOf(client_id) ==
    {[q |-> handoff_clusters[i].combined_question, a |-> handoff_clusters[i].answer] :
        i \in {j \in DOMAIN handoff_clusters :
                 /\ handoff_clusters[j].client_id = client_id
                 /\ handoff_clusters[j].status = "resolved"}}

\* the chat turn of operation 2 has assembled its prompt
PromptAssembled == pc[2] \in {"call", "save", "done"} /\ loc[2].llm_messages # <<>>

\* C21: the previously answered block of the system prompt of a chat turn
\* holds exactly the question/answer pairs of the clusters of the turn's
\* tenant that are resolved when the turn reads them: every such pair,
\* verbatim, and no pair of a pending cluster or of another tenant.
C21_LearnedFromResolved ==
    [][/\ (pc[2] = "history" /\ pc'[2] = "preflight")
            => PairsIn(loc'[2].resolved_tickets) = ResolvedPairsOf(req[2].client_id)
       /\ (pc[2] = "preflight" /\ pc'[2] # "preflight")
            => loc'[2].llm_messages[1].content.learned_context = loc[2].resolved_tickets]_vars

\* a chat turn of acme whose prompt holds the pair of cluster 1, resolved
\* during the run, next to the pair of cluster 3, while dino's cluster 2 is
\* resolved as well or still pending
C21_Witness ==
    /\ PromptAssembled
    /\ pc[2] = "done"
    /\ req[2].client_id = "acme"
    /\ [q |-> "red?", a |-> Answers[1]]
          \in PairsIn(loc[2].llm_messages[1].content.learned_context)
    /\ [q |-> "ship?", a |-> "yes"]
          \in PairsIn(loc[2].llm_messages[1].content.learned_context)

\* ---------------------------------------------------------------------------
\* Knowledge synchronisation: chat requests of bolt, whose only binding is a
\* sheet that has never been synchronised, overlapping or one after another

\* the database clock advances
Tick ==
    /\ now < MaxNow
    /\ now' = now + 1
    /\ UNCHANGED <<chat_sessions, knowledge_bases, sheet, pc, req, loc, resp,
                   completion_calls, ledger_writes, handoff_tables, legacy_globals>>

SyncBody == [client_id |-> "bolt", message |-> Question(1), session_id |-> None, temp_context |-> None]

\* answers of the drive for bolt's sheet: the call raised, or the modification
\* time of the sheet
SyncMetas == {NoMeta} \cup {[ok |-> TRUE, modifiedTime |-> t] : t \in 1..2}

NextSync ==
    \/ Tick
    \/ \E r \in Reqs :
        \/ ChatStart(r, SyncBody, TRUE, TRUE)
        \/ \E meta \in SyncMetas, fetched \in {NullContent, <<"rec-b">>} :
              ChatKbStep(r, meta, fetched)
        \/ ChatKbBegin(r)
        \/ ChatKbWrite(r)
        \/ ChatSyncFail(r)
        \/ ChatKbDone(r)
        \/ ChatReadHistory(r)
        \/ ChatPreflight(r, TRUE, SMALL_MODEL_MAX)
        \/ ChatCompletionOk(r, PlainOutput, [total_tokens |-> 7, cost |-> 2])
        \/ ChatSave(r)

SpecSync == InitTurn /\ [][NextSync]_vars

\* request r takes a round of the aggregation loop
KbRound(r) == pc[r] = "kb" /\ loc[r].kbs # <<>> /\ loc'[r] # loc[r]

\* in the round r takes, the modification time of the source was read and is
\* not later than the last synchronisation of the binding as r read it
NotAdvanced(r) ==
    /\ KbRound(r)
    /\ loc'[r].google_time # NoTime
    /\ Head(loc[r].kbs).last_synced_at # NoTime
    /\ loc'[r].google_time <= Head(loc[r].kbs).last_synced_at

\* C22: a round of the aggregation over a binding whose source has not been
\* modified after the binding's last synchronisation makes no fetch call and
\* no cache write, and contributes the cached content of the binding.
C22_NoSyncWhenNotAdvanced ==
    [][\A r \in Reqs :
          NotAdvanced(r) =>
              /\ loc'[r].fetch_calls = loc[r].fetch_calls
              /\ knowledge_bases' = knowledge_bases
              /\ pc'[r] = "kb"
              /\ loc'[r].combined_data
                    = loc[r].combined_data \o Head(loc[r].kbs).cached_content]_vars

\* request 1 synchronised the sheet and finished; request 2, started after
\* it, found the sheet not modified since, made no fetch call and answered
\* from the same content
C22_Witness ==
    /\ pc[1] = "done" /\ pc[2] = "done"
    /\ loc[1].fetch_calls = 1 /\ loc[1].sync_stamp # NoTime
    /\ loc[2].fetch_calls = 0 /\ loc[2].sync_stamp = NoTime
    /\ loc[2].google_time # NoTime
    /\ loc[2].google_time <= knowledge_bases[2].last_synced_at
    /\ loc[2].knowledge = <<"rec-b">>
    /\ loc[1].knowledge = loc[2].knowledge
    /\ completion_calls[2] = 1

\* C30: no step moves the last-synced timestamp of a binding backward.
C30_SyncMonotonic ==
    [][\A i \in DOMAIN knowledge_bases :
          knowledge_bases'[i].last_synced_at >= knowledge_bases[i].last_synced_at]_vars

\* the refresh of a binding (sync_knowledge_base) is under way in request r
Refreshing(r) == pc[r] = "kb_write"

\* in the round r takes, the modification-time check raised or the fetch of
\* the refresh returned nothing
CheckOrFetchFailed(r) ==
    /\ KbRound(r)
    /\ pc'[r] = "kb"
    /\ \/ loc'[r].fetch_calls > loc[r].fetch_calls
       \/ Head(loc[r].kbs).file_type = "sheet" /\ loc[r].drive_service
          /\ loc'[r].google_time = NoTime

\* C23: a binding whose modification-time check or refresh fails contributes
\* its cached snapshot, nothing when it has none, and the request goes on
\* with the other bindings; a request whose combined records are empty after
\* the last binding returns the not-ready reply and never invokes the model.
C23_FailOpen ==
    [][\A r \in Reqs :
          /\ CheckOrFetchFailed(r) =>
                loc'[r].combined_data
                    = Extended(loc[r].combined_data, Head(loc[r].kbs).cached_content)
          /\ Refreshing(r) => pc'[r] \in {"kb_write", "kb"}
          /\ (pc[r] = "kb" /\ loc[r].kbs = <<>> /\ loc[r].combined_data = <<>>
                /\ pc'[r] # "kb")
                => /\ resp'[r] = Response(200, EMPTY_KB_REPLY, FALSE, FALSE)
                   /\ completion_calls'[r] = 0]_vars

\* request r carries an inline grid and has passed the configuration check
GridRequest(r) ==
    /\ HasObjectBody(r)
    /\ req[r].temp_context # None
    /\ pc[r] # "idle"
    /\ resp[r] # Response(500, DB_FAILED_REPLY, FALSE, FALSE)
    /\ req[r].client_id \in DOMAIN ClientTable
    /\ Configured(req[r].client_id)

\* C24: a request that carries an inline grid reads, checks, refreshes and
\* writes no binding, whatever the bindings of the tenant and the size of the
\* grid, and the knowledge of its prompt is the serialized grid.
C24_GridBypassesBindings ==
    \A r \in Reqs :
        GridRequest(r) =>
            /\ pc[r] \notin {"kb", "kb_write"}
            /\ loc[r].fetch_calls = 0
            /\ loc[r].combined_data = <<>>
            /\ knowledge_bases = InitialBindings
            /\ resp[r] \notin {Response(200, NOT_READY_REPLY, FALSE, FALSE),
                               Response(200, EMPTY_KB_REPLY, FALSE, FALSE)}
            /\ loc[r].llm_messages # <<>>
                  => loc[r].llm_messages[1].content.data = <<req[r].temp_context>>

\* C25: a step of a chat request that supplies no session id leaves the table
\* of sessions as it was: no row is inserted and no row is updated, whatever
\* the outcome of the turn.
C25_NoSessionNoWrite ==
    [][(HasObjectBody(1)' /\ req'[1].session_id = None) => chat_sessions' = chat_sessions]_vars

\* a turn without session id has ended as a handoff, the sessions untouched
C25_Witness ==
    /\ pc[1] = "done"
    /\ HasObjectBody(1)
    /\ req[1].session_id = None
    /\ completion_calls[1] = 1
    /\ resp[1].status = 200
    /\ resp[1].handoff
    /\ chat_sessions = InitialSessions

\* request r has committed its ledger write
Persisted(r) == pc[r] = "done" /\ ledger_writes[r] = 1

\* C26: a persisted turn extends the transcript the session had before the
\* turn by exactly two entries, the user message and then the reply shown to
\* the user; all earlier entries, also those older than the window, stay
\* unchanged and in order. The turns of a session do not overlap here.
C26_AppendOnly ==
    [][\A r \in Reqs :
          (pc[r] = "save" /\ Persisted(r)') =>
              LET sid == req[r].session_id
                  before == IF sid \in DOMAIN chat_sessions
                            THEN chat_sessions[sid].messages ELSE <<>>
              IN  chat_sessions'[sid].messages
                      = before \o <<[role |-> "user", content |-> req[r].message],
                                    [role |-> "model", content |-> resp'[r].reply.chars]>>]_vars

\* a turn persisted on the session of four earlier turns: ten entries
C26_Witness ==
    /\ Persisted(1)
    /\ req[1].session_id = "s3"
    /\ Len(chat_sessions["s3"].messages) = 10
    /\ SubSeq(chat_sessions["s3"].messages, 1, 8) = LongTurn.messages

\* the roles of the message list
MappedRole(role) == IF role = "model" THEN "assistant" ELSE role

\* the transcript of the session of request r as stored before the turn
StoredTranscript(r) ==
    IF req[r].session_id \in DOMAIN InitialSessions
    THEN InitialSessions[req[r].session_id].messages ELSE <<>>

\* C27: the message list sent to the model is one system message, then the
\* last min(6, n) of the n stored entries of the transcript, in stored order,
\* the role "model" mapped to "assistant", then the new user message; every
\* role of the list is system, user or assistant.
C27_MessageList ==
    \A r \in Reqs :
        (HasObjectBody(r) /\ completion_calls[r] > 0) =>
            LET msgs == loc[r].llm_messages
                stored == StoredTranscript(r)
                n == Len(stored)
                k == IF n < 6 THEN n ELSE 6
            IN  /\ Len(msgs) = k + 2
                /\ msgs[1].role = "system"
                /\ \A i \in 1..k :
                      /\ msgs[1 + i].role = MappedRole(stored[n - k + i].role)
                      /\ msgs[1 + i].content = stored[n - k + i].content
                /\ msgs[k + 2] = [role |-> "user", content |-> req[r].message]
                /\ \A i \in 1..(k + 2) : msgs[i].role \in {"system", "user", "assistant"}

\* the model was invoked for a turn on the session of eight stored entries
C27_Witness ==
    /\ HasObjectBody(1)
    /\ completion_calls[1] = 1
    /\ req[1].session_id = "s3"
    /\ Len(loc[1].llm_messages) = 8
    /\ loc[1].llm_messages[2] = [role |-> "user", content |-> Question(3)]
    /\ loc[1].llm_messages[7] = [role |-> "assistant", content |-> Question(8)]

\* C28: whenever an operation has invoked the model, for the chat answer or
\* for the classification of a handoff question, the tenant of the operation
\* has both a credential and a model identifier.
C28_ConfiguredAtEveryCall ==
    \A r \in Reqs : completion_calls[r] > 0 => Configured(req[r].client_id)

\* the models whose maximum context size the library does not know
MaxContextUnknown(model_name) == model_name \in {"custom-model", "unmapped-model"}

\* C29: when the maximum context size of the tenant's model is unknown, a
\* message list estimated above 8000 tokens ends the request with the
\* context-limit warning, computed with the maximum 8000, and the model is
\* not invoked.
C29_DefaultMaximum ==
    \A r \in Reqs :
        (/\ HasObjectBody(r)
         /\ MaxContextUnknown(loc[r].model_name)
         /\ loc[r].tokens > DEFAULT_MAX_TOKENS)
        => /\ pc[r] = "done"
           /\ completion_calls[r] = 0
           /\ resp[r] = Response(200, WarningReply(loc[r].model_name, loc[r].tokens,
                                                   DEFAULT_MAX_TOKENS), FALSE, FALSE)

\* ---------------------------------------------------------------------------
\* The knowledge cache against the spreadsheet: the sheet is edited at Google,
\* the tenant connects it with a range, and chat requests of bolt aggregate

\* the rows of knowledge_bases are at most this many
MaxBindings == 3

\* fetch_and_process_sheet, lines 77-99: the records of a range of the sheet
\* as it is when fetched
SheetRows(version, sheet_range) ==
    <<(IF sheet_range = "A1:Z100" THEN "all-v" ELSE "part-v") \o ToString(version)>>

\* the spreadsheet is edited at Google, at a time after everything before
EditSheet ==
    /\ now < MaxNow
    /\ now' = now + 1
    /\ sheet' = [modifiedTime |-> now + 1, version |-> sheet.version + 1]
    /\ UNCHANGED <<chat_sessions, knowledge_bases, pc, req, loc, resp, completion_calls,
                   ledger_writes, handoff_tables, legacy_globals>>

\* save_sheet, integrations.py lines 119-159: bolt connects sheet-1 with a
\* range; the INSERT of line 150 names no last_synced_at, so the column gets
\* the default of the table, NULL or NOW() (stamped)
SaveSheet(sheet_range, stamped) ==
    /\ Len(knowledge_bases) < MaxBindings
    /\ knowledge_bases' =
          Append(knowledge_bases,
                 [client_id |-> "bolt", file_id |-> "sheet-1", file_type |-> "sheet",
                  sheet_range |-> sheet_range,
                  cached_content |-> SheetRows(sheet.version, sheet_range),
                  last_synced_at |-> IF stamped THEN now ELSE NoTime])
    /\ UNCHANGED <<chat_sessions, now, sheet, legacy_globals, pc, req, loc, resp, completion_calls,
                   ledger_writes, handoff_tables>>

\* the range of the binding request r is about to check
CurrentRange(r) ==
    IF pc[r] = "kb" /\ loc[r].kbs # <<>> THEN Head(loc[r].kbs).sheet_range ELSE None

NextCache ==
    \/ Tick
    \/ EditSheet
    \/ \E stamped \in BOOLEAN : SaveSheet("A1:B5", stamped)
    \/ \E r \in Reqs :
        \/ ChatStart(r, SyncBody, TRUE, TRUE)
        \/ ChatKbStep(r, [ok |-> TRUE, modifiedTime |-> sheet.modifiedTime],
                      SheetRows(sheet.version, CurrentRange(r)))
        \/ ChatKbBegin(r)
        \/ ChatKbWrite(r)
        \/ ChatKbDone(r)
        \/ ChatReadHistory(r)
        \/ ChatPreflight(r, TRUE, SMALL_MODEL_MAX)
        \/ ChatCompletionOk(r, PlainOutput, [total_tokens |-> 7, cost |-> 2])
        \/ ChatSave(r)

SpecCache == InitTurn /\ [][NextCache]_vars

\* the number of entries of seq equal to k
RECURSIVE Count(_, _)
Count(k, seq) ==
    IF seq = <<>> THEN 0
    ELSE (IF Head(seq) = k THEN 1 ELSE 0) + Count(k, Tail(seq))

\* the bindings of the table
AllKeys == {BindingKey(knowledge_bases[i]) : i \in DOMAIN knowledge_bases}

\* C31: a chat request writes the cache (snapshot and timestamp) of a binding
\* at most once when it found the binding stale, and never when it did not.
\* Stated of a request whose aggregation loop has ended.
C31_OneWritePerStaleBinding ==
    \A r \in Reqs : \A k \in AllKeys :
        pc[r] \notin {"idle", "kb", "kb_write"} =>
            Count(k, loc[r].cache_writes) <= (IF k \in loc[r].found_stale THEN 1 ELSE 0)

\* the spreadsheet has one binding only
Single(i) ==
    \A j \in DOMAIN knowledge_bases :
        (knowledge_bases[j].client_id = knowledge_bases[i].client_id
            /\ knowledge_bases[j].file_id = knowledge_bases[i].file_id) => j = i

\* the snapshot of binding i differs from the records of its range now
StaleSnapshot(i) ==
    /\ knowledge_bases[i].file_type = "sheet"
    /\ knowledge_bases[i].cached_content # NullContent
    /\ knowledge_bases[i].cached_content
          # SheetRows(sheet.version, knowledge_bases[i].sheet_range)

\* C34: whenever the cached snapshot of a spreadsheet binding differs from the
\* current content of the spreadsheet, the modification time of the
\* spreadsheet is later than the last-synced timestamp of the binding (or the
\* binding was never synchronised), so that the next aggregation refreshes it.
\* Stated for the bindings that are alone on their spreadsheet.
C34_StaleIsNoticed ==
    \A i \in DOMAIN knowledge_bases :
        (Single(i) /\ StaleSnapshot(i)) =>
            \/ knowledge_bases[i].last_synced_at = NoTime
            \/ sheet.modifiedTime > knowledge_bases[i].last_synced_at

\* C35: the refresh of a binding by a chat request changes the snapshot and
\* the timestamp of that binding only; every other row of knowledge_bases,
\* also that of the same spreadsheet with another range, stays as it is.
C35_RefreshTouchesOneBinding ==
    [][\A r \in Reqs :
          (pc[r] = "kb_write" /\ pc'[r] = "kb") =>
              \A i \in DOMAIN knowledge_bases :
                  BindingKey(knowledge_bases[i]) # BindingKey(Head(loc[r].kbs))
                      => knowledge_bases'[i] = knowledge_bases[i]]_vars

\* ---------------------------------------------------------------------------
\* The handoff inbox under interleavings

\* the r-th operation is a resolve that got past login, body and connection
IsResolve(r) == "session_client" \in DOMAIN req[r] /\ "users" \in DOMAIN loc[r]

\* C32: a notification is sent to an asker of a cluster only when the
\* resolution of that cluster is committed: in the step that sends it the
\* cluster exists, its status is resolved and its stored answer is the answer
\* the notification carries.
C32_NotifyOnlyResolved ==
    [][\A r \in Reqs :
          (pc[r] = "notify" /\ outbox' # outbox /\ pc'[r] = "done")
          => /\ req[r].cluster_id \in DOMAIN handoff_clusters
             /\ handoff_clusters[req[r].cluster_id].status = "resolved"
             /\ handoff_clusters[req[r].cluster_id].answer = req[r].answer]_vars

\* the write of the r-th operation goes to a cluster it read as pending
WritesToFetched(r) ==
    /\ IsHandoffRequest(r)
    /\ pc[r] = "cluster_write" /\ pc'[r] = "done"
    /\ loc[r].assigned_cluster_id \in loc[r].pending_clusters

\* C36: a handoff request that the classifier matched to one of the pending
\* clusters it had read attaches no asker to that cluster and does not
\* change its combined question once the cluster is resolved, however a
\* resolve of the cluster interleaves with the request.
C36_NoAttachAfterResolve ==
    [][\A r \in Reqs :
          (WritesToFetched(r)
           /\ handoff_clusters[loc[r].assigned_cluster_id].status = "resolved")
          => /\ handoff_clusters' = handoff_clusters
             /\ \A i \in (Len(handoff_users) + 1)..Len(handoff_users') :
                   handoff_users'[i].cluster_id # loc[r].assigned_cluster_id]_vars

\* the classifier of the r-th operation returned an id that is none of the
\* pending clusters read at line 47
ForeignId(r) ==
    /\ IsHandoffRequest(r)
    /\ pc[r] = "cluster_write" /\ pc'[r] = "done"
    /\ loc[r].assigned_cluster_id # NoId
    /\ loc[r].assigned_cluster_id \notin loc[r].pending_clusters

\* C37: an id returned by the classifier that is not one of the pending
\* clusters read in the same request is treated as a new topic: no existing
\* cluster is changed, one cluster of the tenant is created and the asker is
\* recorded on it, with success.
C37_ForeignIdIsNewTopic ==
    [][\A r \in Reqs :
          ForeignId(r)
          => /\ \A id \in DOMAIN handoff_clusters :
                   handoff_clusters'[id] = handoff_clusters[id]
             /\ \E id \in DOMAIN handoff_clusters' \ DOMAIN handoff_clusters :
                   /\ handoff_clusters'[id].client_id = req[r].client_id
                   /\ handoff_users' =
                         Append(handoff_users,
                                [cluster_id |-> id, user_email |-> req[r].email,
                                 original_question |-> req[r].question])
             /\ resp'[r] = HandoffSuccess]_vars

\* the r-th operation was merged into cluster 1 with the phrasing of a
\* classifier that follows its prompt
MergedFaithfully(r) ==
    /\ IsHandoffRequest(r) /\ pc[r] = "done"
    /\ loc[r].clustering = "object"
    /\ loc[r].assigned_cluster_id = 1
    /\ 1 \in loc[r].pending_clusters
    /\ loc[r].combined_q = Merge(loc[r].pending_rows[1], req[r].question)

\* C38: when operations 1 and 2, and no other, were merged into the pending
\* cluster 1, its combined question is what one of the two orders of running
\* them one after the other gives: it reflects the questions of both askers.
C38_BothMergesKept ==
    (/\ MergedFaithfully(1) /\ MergedFaithfully(2)
     /\ \A r \in Reqs \ {1, 2} : pc[r] = "idle")
    => handoff_clusters[1].combined_question
          \in {Merge(Merge(InitialClusters[1].combined_question, req[1].question),
                     req[2].question),
               Merge(Merge(InitialClusters[1].combined_question, req[2].question),
                     req[1].question)}

\* C39: a resolve that returns success leaves its cluster resolved with the
\* answer it gave (or with the answer of a resolve of the same cluster that
\* committed after it), and the notification step, whatever the delivery,
\* changes no cluster.
C39_SuccessMeansResolved ==
    [][\A r \in Reqs :
          (IsResolve(r) /\ pc[r] = "notify" /\ pc'[r] = "done" /\ resp'[r].status = 200)
          => /\ handoff_clusters' = handoff_clusters
             /\ req[r].cluster_id \in DOMAIN handoff_clusters
             /\ handoff_clusters[req[r].cluster_id].status = "resolved"
             /\ \/ handoff_clusters[req[r].cluster_id].answer = req[r].answer
                \/ \E o \in Reqs \ {r} :
                      /\ IsResolve(o)
                      /\ req[o].cluster_id = req[r].cluster_id
                      /\ handoff_clusters[req[r].cluster_id].answer = req[o].answer]_vars

\* ------------------------------------------------ the legacy messenger webhook
\* src/app.py, webhook(), POST: the batch of one payload is walked entry by
\* entry and event by event.  An element of req is here the payload, of loc
\* the position in the batch and the calls made, of resp the body returned.
YOUR_FACEBOOK_PAGE_ID == "page-1"

NO_ANSWER_PHRASE_FROM_GEMINI == "I'm sorry, I don't have that specific information right now."

FALLBACK_MESSAGE == "Let me get a human expert to help you."

ATTACHMENT_MESSAGE == "I can only process text messages right now."

\* a messaging event: "message" present or not, its text, mid, reply_to.mid
\* and attachments
MessagingEvent(sender, recipient, has_message, text, mid, reply_to, attachments) ==
    [sender |-> sender, recipient |-> recipient, has_message |-> has_message, text |-> text,
     mid |-> mid, reply_to |-> reply_to, attachments |-> attachments]

\* line 328 and line 350: who wrote the event
IsOwnerEvent(e) == e.sender = YOUR_FACEBOOK_PAGE_ID /\ e.recipient # YOUR_FACEBOOK_PAGE_ID

IsUserEvent(e) == e.sender # YOUR_FACEBOOK_PAGE_ID /\ e.recipient = YOUR_FACEBOOK_PAGE_ID

\* line 358: a user message with a text and a message id
IsUserText(e) == IsUserEvent(e) /\ e.has_message /\ e.text # None /\ e.mid # None

\* the events of a payload in the order in which lines 317 and 319 visit them
RECURSIVE EventsOf(_)
EventsOf(entry) ==
    IF entry = <<>> THEN <<>> ELSE Head(entry).messaging \o EventsOf(Tail(entry))

\* is_query_similar, lines 122-126: SequenceMatcher ratio of the lowered
\* queries >= 0.75.  The queries here are "hours?", "price?" and "refund?",
\* in lower case: the ratio is 1.0 for equal ones and 0.31 to 0.46 otherwise.
is_query_similar(query1, query2) ==
    IF query1 = None \/ query2 = None THEN FALSE ELSE query1 = query2

\* find_in_learned_qna, lines 128-136: the answer of the first similar pair
find_in_learned_qna(user_query) ==
    LET hits == {i \in 1..Len(learned_qna_data) :
                    is_query_similar(user_query, learned_qna_data[i].original_customer_query)}
    IN  IF hits = {} THEN None
        ELSE learned_qna_data[CHOOSE i \in hits : \A j \in hits : i <= j].learned_answer

WebhookResponse(body) == [status |-> 200, body |-> body]

\* the event the loop stands at
AtEvent(r) == pc[r] = "hook" /\ loc[r].pos <= Len(loc[r].events)

CurrentEvent(r) == loc[r].events[loc[r].pos]

\* lines 311-317 and 408-412: the payload arrives; one that is not of a page
\* is acknowledged at once
WebhookStart(r, data) ==
    /\ pc[r] = "idle"
    /\ req' = [req EXCEPT ![r] = data]
    /\ loc' = [loc EXCEPT ![r] = [events |-> IF data.object = "page" THEN EventsOf(data.entry) ELSE <<>>,
                                  pos |-> 1, sent |-> <<>>, learned |-> <<>>]]
    /\ IF data.object = "page" THEN Goto(r, "hook") ELSE Finish(r, WebhookResponse("EVENT_RECEIVED"))
    /\ UNCHANGED <<chat_sessions, knowledge_bases, now, sheet, legacy_globals, completion_calls,
                   ledger_writes, handoff_tables>>

\* lines 328-347: a message of the page.  A reply to an escalated message is
\* taken from the waiting ones and appended to the learned sheet
\* (add_learned_qna_to_sheet, lines 269-290: the cache is reloaded when the
\* append succeeded); the handler returns.
WebhookOwner(r, appended) ==
    /\ AtEvent(r)
    /\ IsOwnerEvent(CurrentEvent(r))
    /\ LET e == CurrentEvent(r)
           known == e.text # None /\ e.reply_to # None
                    /\ e.reply_to \in DOMAIN escalated_queries_awaiting_reply
           pair == [original_customer_query |-> escalated_queries_awaiting_reply[e.reply_to].query_text,
                    learned_answer |-> e.text]
       IN  /\ escalated_queries_awaiting_reply' =
                 IF known
                 THEN [m \in DOMAIN escalated_queries_awaiting_reply \ {e.reply_to} |->
                          escalated_queries_awaiting_reply[m]]
                 ELSE escalated_queries_awaiting_reply
           /\ learned_qna_data' =
                 IF known /\ appended THEN Append(learned_qna_data, pair) ELSE learned_qna_data
           /\ loc' = [loc EXCEPT ![r].pos = @ + 1,
                                 ![r].learned = IF known THEN Append(@, pair) ELSE @]
    /\ Finish(r, WebhookResponse("OWNER_MESSAGE_PROCESSED"))
    /\ UNCHANGED <<chat_sessions, knowledge_bases, now, sheet, req, completion_calls,
                   ledger_writes, handoff_tables>>

\* lines 350-401: a message of a user with a text or an attachment.  A text is
\* answered from the learned pairs, or by the model over the product context,
\* or escalated (fallback message, notify_owner lines 231-249); an attachment
\* gets the placeholder; the handler returns.
WebhookUser(r, rag_context, gemini_reply) ==
    /\ AtEvent(r)
    /\ IsUserEvent(CurrentEvent(r))
    /\ CurrentEvent(r).has_message
    /\ IsUserText(CurrentEvent(r)) \/ CurrentEvent(r).attachments
    /\ LET e == CurrentEvent(r)
           learned_answer == find_in_learned_qna(e.text)
           bot_reply == IF rag_context THEN gemini_reply ELSE NO_ANSWER_PHRASE_FROM_GEMINI
           escalate == bot_reply = NO_ANSWER_PHRASE_FROM_GEMINI \/ ~rag_context
           message == IF ~IsUserText(e) THEN ATTACHMENT_MESSAGE
                      ELSE IF learned_answer # None THEN learned_answer
                      ELSE IF escalate THEN FALLBACK_MESSAGE ELSE bot_reply
           body == IF ~IsUserText(e) THEN "EVENT_RECEIVED_USER_ATTACHMENT_PROCESSED"
                   ELSE IF learned_answer # None THEN "EVENT_RECEIVED_ANSWERED_BY_LEARNED"
                   ELSE "EVENT_RECEIVED_USER_QUERY_PROCESSED"
       IN  /\ loc' = [loc EXCEPT ![r].pos = @ + 1,
                                 ![r].sent = Append(@, [recipient |-> e.sender, mid |-> e.mid,
                                                        text |-> message])]
           /\ escalated_queries_awaiting_reply' =
                 IF IsUserText(e) /\ learned_answer = None /\ escalate
                 THEN [m \in DOMAIN escalated_queries_awaiting_reply \cup {e.mid} |->
                          IF m = e.mid THEN [customer_id |-> e.sender, query_text |-> e.text]
                          ELSE escalated_queries_awaiting_reply[m]]
                 ELSE escalated_queries_awaiting_reply
           /\ Finish(r, WebhookResponse(body))
    /\ UNCHANGED <<chat_sessions, knowledge_bases, now, sheet, req, learned_qna_data,
                   completion_calls, ledger_writes, handoff_tables>>

\* lines 402-407: an event that is neither (no message object, a message
\* with neither text nor attachment, an unrecognised sender): logged, and
\* the loop goes on
WebhookSkip(r) ==
    /\ AtEvent(r)
    /\ ~IsOwnerEvent(CurrentEvent(r))
    /\ ~(IsUserEvent(CurrentEvent(r)) /\ CurrentEvent(r).has_message
         /\ (IsUserText(CurrentEvent(r)) \/ CurrentEvent(r).attachments))
    /\ loc' = [loc EXCEPT ![r].pos = @ + 1]
    /\ UNCHANGED <<chat_sessions, knowledge_bases, now, sheet, legacy_globals, pc, req, resp,
                   completion_calls, ledger_writes, handoff_tables>>

\* lines 411-412: the loops ended without a return
WebhookEnd(r) ==
    /\ pc[r] = "hook"
    /\ loc[r].pos > Len(loc[r].events)
    /\ Finish(r, WebhookResponse("EVENT_RECEIVED"))
    /\ UNCHANGED <<chat_sessions, knowledge_bases, now, sheet, legacy_globals, req, loc,
                   completion_calls, ledger_writes, handoff_tables>>

\* the events the platform delivers: two questions of users, a reply of the
\* owner to the escalated message m0, a delivery receipt and an attachment
WebhookEvents ==
    {MessagingEvent("u1", YOUR_FACEBOOK_PAGE_ID, TRUE, "price?", "m1", None, FALSE),
     MessagingEvent("u2", YOUR_FACEBOOK_PAGE_ID, TRUE, "hours?", "m2", None, FALSE),
     MessagingEvent(YOUR_FACEBOOK_PAGE_ID, "u1", TRUE, "two weeks", "m9", "m0", FALSE),
     MessagingEvent("u1", YOUR_FACEBOOK_PAGE_ID, FALSE, None, None, None, FALSE),
     MessagingEvent("u2", YOUR_FACEBOOK_PAGE_ID, TRUE, None, "m3", None, TRUE)}

\* payloads: one entry of one or two different events, two entries of one
\* event each, and a payload that is not of a page
WebhookPayloads ==
    LET EventPairs == {p \in WebhookEvents \X WebhookEvents : p[1] # p[2]}
    IN  {[object |-> "page", entry |-> <<[messaging |-> <<e>>]>>] : e \in WebhookEvents}
        \cup {[object |-> "page", entry |-> <<[messaging |-> <<p[1], p[2]>>]>>] : p \in EventPairs}
        \cup {[object |-> "page", entry |-> <<[messaging |-> <<p[1]>>], [messaging |-> <<p[2]>>]>>] :
                 p \in EventPairs}
        \cup {[object |-> "user", entry |-> <<>>]}

NextWebhook ==
    \E r \in Reqs :
        \/ \E data \in WebhookPayloads : WebhookStart(r, data)
        \/ \E appended \in BOOLEAN : WebhookOwner(r, appended)
        \/ \E rag_context \in BOOLEAN, gemini_reply \in {"it costs 5", NO_ANSWER_PHRASE_FROM_GEMINI} :
              WebhookUser(r, rag_context, gemini_reply)
        \/ WebhookSkip(r)
        \/ WebhookEnd(r)

SpecWebhook == InitHandoff /\ [][NextWebhook]_vars

\* C40: when the webhook returns, every event of the payload has been
\* processed: every user text message of the batch got exactly one reply, and
\* no owner reply of the batch is to a message that still awaits its reply
\* (it was learned), whatever the position of the event in the batch.
C40_WholeBatchProcessed ==
    [][\A r \in Reqs :
          (pc[r] = "hook" /\ pc'[r] = "done")
          => \A i \in 1..Len(loc'[r].events) :
                LET e == loc'[r].events[i]
                IN  /\ IsUserText(e)
                       => Cardinality({j \in 1..Len(loc'[r].sent) : loc'[r].sent[j].mid = e.mid}) = 1
                    /\ IsOwnerEvent(e)
                       => e.reply_to \notin DOMAIN escalated_queries_awaiting_reply']_vars
====
